---- MODULE Spec2Model ----
(***************************************************************************)
(* A model of the interactive-fiction bot kosss26/history: the story       *)
(* engine (engine/story_engine.py, conditions.py, effects.py,              *)
(* scene_renderer.py), the run and flag tables (storage/repository.py,     *)
(* storage/db.py), the story files (utils/yaml_utils.py) and the handlers  *)
(* that call them (bot.py, handlers/menu.py, admin/commands.py,            *)
(* admin/editor.py).                                                       *)
(*                                                                         *)
(* Granularity.  The bot is one asyncio event loop over one aiosqlite      *)
(* connection: coroutines interleave only at awaits, and every await of    *)
(* the code is a statement on the database.  One step of the model is one  *)
(* SQL statement together with the synchronous code that follows it up to  *)
(* the next await; the synchronous code reads only the task's locals and   *)
(* the engine's story index, so it commutes with the other tasks'          *)
(* statements.  A trailing get_flags whose result only feeds the DEBUG     *)
(* text of a render is folded into the step before it.                     *)
(***************************************************************************)
EXTENDS Integers, Sequences, FiniteSets, TLC

\* ------------------------------------------------------------------ bounds
MaxRuns  == 2    \* run ids handed out by AUTOINCREMENT before the model stops creating
MaxClock == 1    \* ticks of CURRENT_TIMESTAMP
MaxInt   == 12   \* the decimal strings int() is asked to parse are those of 0..MaxInt

\* ------------------------------------------------------------- value space
Procs    == {"p1", "p2"}
Users    == {"u1", "u2"}
RunIds   == 1..MaxRuns
NoRun    == 0                \* "no run id": Python None where a run id is expected
Null     == -1               \* SQL NULL in finished_at
NoStory  == ""               \* Python None where a story is expected
NoScene  == ""               \* a missing/empty start_scene or next_scene (falsy)

\* A YAML scalar as the story files carry it (the value of flag_equals / set_flag).
YInt(i) == [t |-> "int", i |-> i, s |-> ""]
YStr(s) == [t |-> "str", i |-> 0, s |-> s]
YNone   == [t |-> "none", i |-> 0, s |-> ""]      \* the key is present, its value null
YMissing == [t |-> "missing", i |-> 0, s |-> ""]  \* the key is not in the mapping

Digit == <<"0", "1", "2", "3", "4", "5", "6", "7", "8", "9">>

\* Python str(n) of a non-negative int.
RECURSIVE IntStr(_)
IntStr(n) == IF n < 10 THEN Digit[n + 1] ELSE IntStr(n \div 10) \o Digit[(n % 10) + 1]

\* Python str(v) of a YAML scalar.
PyStr(v) == CASE v.t = "int" -> IntStr(v.i)
              [] v.t = "str" -> v.s
              [] OTHER       -> "None"

\* Python int(s): defined on decimal strings, ValueError otherwise.
IsIntStr(s) == \E n \in 0..MaxInt : IntStr(n) = s
PyInt(s)    == CHOOSE n \in 0..MaxInt : IntStr(n) = s

\* ------------------------------------------------------------ story files
Cond(kind, flag, value) == [kind |-> kind, flag |-> flag, value |-> value]
Eff(kind, flag, value)  == [kind |-> kind, flag |-> flag, value |-> value]
Choice(id, next, conds, effs) ==
    [id |-> id, next_scene |-> next, conditions |-> conds, effects |-> effs]

(* The story files of STORIES_DIR.  scenes maps a scene id to its choice    *)
(* list; endings maps an ending id to the truthiness of its mapping (an     *)
(* ending written "V: {}" is an ending id whose mapping is empty).          *)
StoryFiles ==
    [s1 |-> [id            |-> "s1",
             allow_restart |-> FALSE,
             start_scene   |-> "A",
             scenes |-> [A |-> << Choice("go",   "B", << >>,
                                         << Eff("increment_counter", "n", YNone) >>),
                                  Choice("quit", "E", << >>, << >>) >>,
                         B |-> << Choice("open", "E",
                                         << Cond("has_flag", "k", YNone) >>, << >>),
                                  Choice("key",  "B", << >>,
                                         << Eff("add_flag", "k", YNone) >>) >>],
             endings |-> [E |-> TRUE]],
     s2 |-> [id            |-> "s2",
             allow_restart |-> TRUE,
             start_scene   |-> "S",
             scenes |-> [S |-> << Choice("fin",  "F", << >>, << >>),
                                  Choice("void", "V", << >>, << >>) >>],
             endings |-> [F |-> TRUE, V |-> FALSE]],
     s3 |-> [id            |-> "s3",
             allow_restart |-> TRUE,
             start_scene   |-> "H",
             scenes |-> [H |-> <<
                Choice("inc",  "H", << >>, << Eff("increment_counter", "n", YNone) >>),
                Choice("key",  "H", << >>, << Eff("add_flag", "k", YNone) >>),
                Choice("drop", "H", << >>, << Eff("remove_flag", "k", YNone) >>),
                Choice("door", "G", << Cond("has_flag", "k", YNone) >>, << >>),
                Choice("mix",  "G", << >>,
                       << Eff("set_flag", "v", YInt(1)),
                          Eff("teleport", "k", YNone),
                          Eff("set_flag", "v", YStr("x")),
                          Eff("add_flag", "k", YNone) >>),
                Choice("bad",  "H", << >>,
                       << Eff("set_flag", "v", YStr("x")),
                          Eff("increment_counter", "v", YNone),
                          Eff("remove_flag", "v", YNone) >>),
                Choice("nul",  "H", << >>, << Eff("set_flag", "v", YNone) >>),
                Choice("eq",   "H",
                       << Cond("flag_equals", "v", YStr("x")),
                          Cond("not_has_flag", "k", YNone) >>,
                       << Eff("remove_flag", "v", YNone) >>),
                Choice("eqn",  "H",
                       << Cond("flag_equals", "n", YInt(10)) >>,
                       << Eff("remove_flag", "n", YNone) >>),
                Choice("eqnull", "H",
                       << Cond("flag_equals", "v", YNone) >>,
                       << Eff("remove_flag", "v", YNone) >>),
                Choice("emptyc", "H",
                       << Cond("has_flag", "k", YNone), Cond("", "", YNone) >>, << >>),
                Choice("emptye", "H", << >>,
                       << Eff("add_flag", "k", YNone), Eff("", "", YNone) >>) >>,
                         G |-> <<
                Choice("back", "H", << >>, << >>),
                Choice("odd",  "H", << Cond("flag_greater", "n", YInt(0)) >>,
                       << Eff("add_flag", "k", YNone) >>) >>],
             endings |-> [e \in {} |-> TRUE]],
     (* s4.yaml as written by hand: a choice without next_scene and a      *)
     (* choice whose next_scene is neither a scene nor an ending.         *)
     s4 |-> [id            |-> "s4",
             allow_restart |-> TRUE,
             start_scene   |-> "P",
             scenes |-> [P |-> <<
                Choice("go",   "Q", << >>, << Eff("add_flag", "k", YNone) >>),
                Choice("stay", NoScene, << >>, << Eff("add_flag", "k", YNone) >>),
                Choice("lost", "X", << >>, << Eff("add_flag", "k", YNone) >>),
                Choice("end",  "Z", << >>, << >>) >>,
                         Q |-> << Choice("back", "P", << >>, << >>) >>],
             endings |-> [Z |-> TRUE]],
     (* s4 as an administrator uploads it anew: Q has become an ending.    *)
     s4b |-> [id            |-> "s4",
              allow_restart |-> TRUE,
              start_scene   |-> "P",
              scenes |-> [P |-> <<
                 Choice("go",  "Q", << >>, << Eff("add_flag", "k", YNone) >>),
                 Choice("end", "Z", << >>, << >>) >>],
              endings |-> [Q |-> TRUE, Z |-> TRUE]],
     (* s4 uploaded with one flaw: a next_scene that names nothing.        *)
     s4x |-> [id            |-> "s4",
              allow_restart |-> TRUE,
              start_scene   |-> "P",
              scenes |-> [P |-> <<
                 Choice("go",   "Q", << >>, << Eff("add_flag", "k", YNone) >>),
                 Choice("lost", "X", << >>, << Eff("add_flag", "k", YNone) >>),
                 Choice("end",  "Z", << >>, << >>) >>,
                          Q |-> << Choice("back", "P", << >>, << >>) >>],
              endings |-> [Z |-> TRUE]],
     (* s5.yaml without a start_scene, and with one that names nothing.    *)
     s5 |-> [id            |-> "s5",
             allow_restart |-> TRUE,
             start_scene   |-> NoScene,
             scenes |-> [T |-> << Choice("on", "T", << >>, << >>) >>],
             endings |-> [e \in {} |-> TRUE]],
     s5d |-> [id            |-> "s5",
              allow_restart |-> TRUE,
              start_scene   |-> "X",
              scenes |-> [T |-> << Choice("on", "T", << >>, << >>) >>],
              endings |-> [e \in {} |-> TRUE]],
     (* A story mapping that declares no id.                               *)
     anon |-> [id            |-> "",
               allow_restart |-> TRUE,
               start_scene   |-> "T",
               scenes |-> [T |-> << Choice("on", "T", << >>, << >>) >>],
               endings |-> [e \in {} |-> TRUE]]]

\* The story files the bot is deployed with.
FileKeys  == {"s1", "s2", "s3"}

(* STORIES_DIR.  A file is named after the id save_story is given; what a  *)
(* file holds is a key of StoryFiles (a mapping yaml.safe_load returns),   *)
(* "empty" (safe_load returns None), "garbage" (safe_load raises           *)
(* YAMLError) or "absent" (there is no such file).                         *)
FileOf(story_id) == story_id \o ".yaml"
\* The files in the order the glob lists them (the file system's, not sorted).
FileOrder == << "s1.yaml", "s2.yaml", "s3.yaml", "s5.yaml", "s4.yaml" >>
FileNames == {FileOrder[i] : i \in 1..Len(FileOrder)}
IsMapping(content) == content \in DOMAIN StoryFiles

\* The directory the bot is deployed with.
StoryDir ==
    [f \in FileNames |-> IF \E k \in FileKeys : f = FileOf(k)
                         THEN CHOOSE k \in FileKeys : f = FileOf(k)
                         ELSE "absent"]
FlagNames == {"k", "n", "v"}

\* The inputs the requests are drawn from.
StoryIdInputs == {"s1", "s2", "zz"}
ChoiceInputs  == { <<"A", "go">>, <<"A", "quit">>, <<"B", "open">>, <<"B", "key">>,
                   <<"S", "fin">>, <<"S", "void">>, <<"A", "open">> }

VARIABLES
    stories,   \* StoryEngine.stories: story id -> loaded definition
    runs,      \* table runs: run_id -> row
    flags,     \* table flags: <<run_id, flag_name>> -> flag_value
    nextId,    \* sqlite_sequence of runs (AUTOINCREMENT): the next run_id
    now,       \* CURRENT_TIMESTAMP
    task,      \* the requests in flight: one record per task slot
    pre,       \* the tables as they were when the request in flight arrived (SpecSeq)
               \* and, in SpecAdmin, the story object the request last fetched
    disk,      \* STORIES_DIR: file name -> what the file holds
    admin,     \* where the administrator's save / delete handler stands
    listing    \* the mapping a caller of list_stories holds

vars == <<stories, runs, flags, nextId, now, task, pre, disk, admin, listing>>

\* The story source and its administration, which the players' requests leave alone.
source == <<disk, admin, listing>>

\* ---------------------------------------------------------------- engine
\* StoryEngine._load_stories: index every file by its declared id.
LoadStories == [k \in FileKeys |-> k]

\* StoryEngine.get_story
get_story(story_id) ==
    IF story_id \in DOMAIN stories THEN stories[story_id] ELSE NoStory

\* _load_stories, one file: a file that is empty, does not parse or declares
\* no id is passed over; any other is indexed under its declared id.
LoadFile(index, content) ==
    IF ~IsMapping(content) THEN index
    ELSE IF StoryFiles[content].id = "" THEN index
    ELSE [i \in (DOMAIN index) \cup {StoryFiles[content].id} |->
             IF i = StoryFiles[content].id THEN content ELSE index[i]]

\* Mutant of LoadFrom: a file that does not parse ends the loading.
RECURSIVE LoadFromAbort(_, _, _)
LoadFromAbort(dir, files, index) ==
    IF Len(files) = 0 \/ dir[Head(files)] = "garbage" THEN index
    ELSE LoadFromAbort(dir, Tail(files), LoadFile(index, dir[Head(files)]))

\* _load_stories: the loop over the files the glob found, in its order
RECURSIVE LoadFrom(_, _, _)
LoadFrom(dir, files, index) ==
    IF Len(files) = 0 THEN index
    ELSE LoadFrom(dir, Tail(files), LoadFile(index, dir[Head(files)]))

\* StoryEngine.__init__ and reload_stories: the index after loading into the
\* empty mapping.  Neither has an await: no other handler runs meanwhile.
reload_stories(dir) == LoadFrom(dir, FileOrder, << >>)

\* Mutant of list_stories: the caller is handed the index itself.
list_stories_alias == [ref |-> "index", map |-> << >>]

\* StoryEngine.list_stories: self.stories.copy(), a new mapping of the ids to
\* the same story objects.
list_stories == [ref |-> "copy", map |-> stories]

\* What the holder of a list_stories result reads in it.
Listed == IF listing.ref = "index" THEN stories ELSE listing.map

\* utils/yaml_utils.py validate_story: the errors it finds.  The stories here
\* all have a title and texts: there are no warnings.
ValidationErrors(content) ==
    LET s     == StoryFiles[content]
        known == (DOMAIN s.scenes) \cup (DOMAIN s.endings)
        all   == {<<sc, i>> \in (DOMAIN s.scenes) \X (1..20) : i <= Len(s.scenes[sc])}
    IN  (IF s.id = "" THEN {"no_id"} ELSE {})
        \cup (IF s.start_scene = NoScene THEN {"no_start_scene"} ELSE {})
        \cup (IF DOMAIN s.scenes = {} THEN {"no_scenes"} ELSE {})
        \cup (IF s.start_scene # NoScene /\ s.start_scene \notin known
              THEN {"start_not_found"} ELSE {})
        \cup {"choice_no_id" : x \in {y \in all : s.scenes[y[1]][y[2]].id = ""}}
        \cup {"no_next_scene" : x \in {y \in all : s.scenes[y[1]][y[2]].next_scene = NoScene}}
        \cup {"next_not_found" : x \in {y \in all :
                  /\ s.scenes[y[1]][y[2]].next_scene # NoScene
                  /\ s.scenes[y[1]][y[2]].next_scene \notin known}}

validate_story(content) == ValidationErrors(content) = {}

\* save_story refuses a story that is not valid when one of its issues has a
\* text its filter matches ("Отсутствует", "не найден", "не имеет").
SaveRefuses(content) ==
    /\ ~validate_story(content)
    /\ ValidationErrors(content)
          \cap {"no_id", "no_start_scene", "start_not_found", "choice_no_id", "no_next_scene"}
          # {}

SceneIds(story)  == DOMAIN StoryFiles[story].scenes
EndingIds(story) == DOMAIN StoryFiles[story].endings

\* next((c for c in choices if c.get("id") == choice_id), None), as an index (0: None)
FindChoice(choices, choice_id) ==
    IF \E i \in 1..Len(choices) : choices[i].id = choice_id
    THEN CHOOSE i \in 1..Len(choices) :
            /\ choices[i].id = choice_id
            /\ \A j \in 1..(i - 1) : choices[j].id # choice_id
    ELSE 0

\* ------------------------------------------------------------ repositories
\* SELECT flag_name, flag_value FROM flags WHERE run_id = ?, as a dict
FlagsOf(fl, run_id) ==
    [n \in {m \in FlagNames : <<run_id, m>> \in DOMAIN fl} |-> fl[<<run_id, n>>]]

\* Mutant of get_flags: the SELECT has no WHERE run_id = ?, one namespace of
\* flags for all runs.
get_flags_global(run_id) ==
    [n \in {m \in FlagNames : \E k \in DOMAIN flags : k[2] = m} |->
        flags[CHOOSE k \in DOMAIN flags : k[2] = n]]

\* FlagRepository.get_flags
get_flags(run_id) == FlagsOf(flags, run_id)

\* INSERT OR REPLACE INTO flags
SetFlagRow(fl, run_id, name, value) ==
    [k \in (DOMAIN fl) \cup {<<run_id, name>>} |->
        IF k = <<run_id, name>> THEN value ELSE fl[k]]

\* DELETE FROM flags WHERE run_id = ? AND flag_name = ?
RemoveFlagRow(fl, run_id, name) ==
    [k \in (DOMAIN fl) \ {<<run_id, name>>} |-> fl[k]]

\* WHERE user_id = ? AND story_id = ? AND is_finished = 0 over a runs table
ActiveIn(rs, user_id, story_id) ==
    {r \in DOMAIN rs : /\ rs[r].user_id = user_id
                       /\ rs[r].story_id = story_id
                       /\ ~rs[r].is_finished}

\* The unfinished runs of a (user, story) pair.
ActiveRuns(user_id, story_id) == ActiveIn(runs, user_id, story_id)

\* Mutant of ActiveRunCandidates: ORDER BY started_at ASC, the run started first.
ActiveRunCandidatesOldest(user_id, story_id) ==
    {r \in ActiveRuns(user_id, story_id) :
        \A q \in ActiveRuns(user_id, story_id) : runs[r].started_at <= runs[q].started_at}

\* RunRepository.get_active_run: ORDER BY started_at DESC LIMIT 1.  Rows with
\* the same started_at are in no defined order: any of them may be returned.
ActiveRunCandidates(user_id, story_id) ==
    {r \in ActiveRuns(user_id, story_id) :
        \A q \in ActiveRuns(user_id, story_id) : runs[q].started_at <= runs[r].started_at}

\* Mutant of NewRunRow: the INSERT stores the run of another user's id.
NewRunRowWrongOwner(user_id, story_id, start_scene) ==
    [user_id |-> CHOOSE u \in Users : u # user_id, story_id |-> story_id,
     current_scene |-> start_scene,
     is_finished |-> FALSE, started_at |-> now, finished_at |-> Null]

\* RunRepository.create: the INSERT
NewRunRow(user_id, story_id, start_scene) ==
    [user_id |-> user_id, story_id |-> story_id, current_scene |-> start_scene,
     is_finished |-> FALSE, started_at |-> now, finished_at |-> Null]

InsertRun(rs, run_id, row) ==
    [r \in (DOMAIN rs) \cup {run_id} |-> IF r = run_id THEN row ELSE rs[r]]

\* RunRepository.update_scene: UPDATE runs SET current_scene = ? WHERE run_id = ?
update_scene(rs, run_id, scene_id) ==
    IF run_id \in DOMAIN rs
    THEN [rs EXCEPT ![run_id].current_scene = scene_id]
    ELSE rs

\* RunRepository.finish_run: UPDATE runs SET is_finished = 1, finished_at = CURRENT_TIMESTAMP
finish_run(rs, run_id) ==
    IF run_id \in DOMAIN rs
    THEN [rs EXCEPT ![run_id].is_finished = TRUE, ![run_id].finished_at = now]
    ELSE rs

\* ------------------------------------------------------------- conditions
\* Mutant of check_single_condition: has_flag answers True whatever the cache holds.
check_single_condition_open(c, cache) ==
    CASE c.kind = "has_flag"     -> TRUE
      [] c.kind = "not_has_flag" -> ~(c.flag \in DOMAIN cache)
      [] OTHER -> FALSE

\* Mutant of check_single_condition: a condition of an unknown kind passes.
check_single_condition_lenient(c, cache) ==
    CASE c.kind = "has_flag"     -> c.flag \in DOMAIN cache
      [] c.kind = "not_has_flag" -> ~(c.flag \in DOMAIN cache)
      [] c.kind = "flag_equals"  ->
            IF c.flag = "" \/ c.value.t \in {"none", "missing"}
            THEN FALSE
            ELSE /\ c.flag \in DOMAIN cache
                 /\ cache[c.flag] = PyStr(c.value)
      [] OTHER -> TRUE

\* Mutant of check_single_condition: not_has_flag answers as has_flag does.
check_single_condition_swapped(c, cache) ==
    CASE c.kind = "has_flag"     -> c.flag \in DOMAIN cache
      [] c.kind = "not_has_flag" -> c.flag \in DOMAIN cache
      [] c.kind = "flag_equals"  ->
            IF c.flag = "" \/ c.value.t \in {"none", "missing"}
            THEN FALSE
            ELSE /\ c.flag \in DOMAIN cache
                 /\ cache[c.flag] = PyStr(c.value)
      [] OTHER -> FALSE

\* Mutant of check_single_condition: has_flag answers False whatever the cache holds.
check_single_condition_closed(c, cache) ==
    CASE c.kind = "has_flag"     -> FALSE
      [] c.kind = "not_has_flag" -> ~(c.flag \in DOMAIN cache)
      [] c.kind = "flag_equals"  ->
            IF c.flag = "" \/ c.value.t \in {"none", "missing"}
            THEN FALSE
            ELSE /\ c.flag \in DOMAIN cache
                 /\ cache[c.flag] = PyStr(c.value)
      [] OTHER -> FALSE

\* ConditionChecker._check_single_condition against the loaded flag cache
check_single_condition(c, cache) ==
    CASE c.kind = "has_flag"     -> c.flag \in DOMAIN cache
      [] c.kind = "not_has_flag" -> ~(c.flag \in DOMAIN cache)
      [] c.kind = "flag_equals"  ->
            IF c.flag = "" \/ c.value.t \in {"none", "missing"}
            THEN FALSE
            ELSE /\ c.flag \in DOMAIN cache
                 /\ cache[c.flag] = PyStr(c.value)
      [] OTHER -> FALSE

\* ConditionChecker.check_conditions, given the flags load_flags read
check_conditions(conditions, cache) ==
    \A i \in 1..Len(conditions) : check_single_condition(conditions[i], cache)

\* The loop of check_conditions stops at the first condition that is an empty
\* mapping (list(condition.keys())[0] raises) or evaluates to False; 0 if none.
FirstStop(conditions, cache) ==
    LET stops == {i \in 1..Len(conditions) :
                     \/ conditions[i].kind = ""
                     \/ ~check_single_condition(conditions[i], cache)}
    IN  IF stops = {} THEN 0 ELSE CHOOSE i \in stops : \A j \in stops : i <= j

\* ------------------------------------------------------------------ tasks
(* What a request ended with: the engine's return value (kind "scene",     *)
(* "ending", "ending_error" with the run id, or "absent" for None), an     *)
(* exception ("raised"), or the handler's own outcome.  why is the line    *)
(* the code logs or answers when it gives up.                              *)
(* keyboard is the inline keyboard of a scene's render: its rows, each a    *)
(* sequence of buttons, a button being its callback data (no rows where    *)
(* the engine returns None for the keyboard).                              *)
NoResult ==
    [op |-> "none", kind |-> "none", id |-> "", run_id |-> NoRun, why |-> "",
     keyboard |-> << >>]
Render(t, kind, id) ==
    [op |-> t.op, kind |-> kind, id |-> id, run_id |-> t.run_id, why |-> "",
     keyboard |-> << >>]
Absent(t, why) ==
    [op |-> t.op, kind |-> "absent", id |-> "", run_id |-> NoRun, why |-> why,
     keyboard |-> << >>]
Outcome(t, kind) ==
    [op |-> t.op, kind |-> kind, id |-> "", run_id |-> NoRun, why |-> "",
     keyboard |-> << >>]

\* SceneRenderer._build_keyboard: f"choice:{self.run_id}:{scene_id}:{choice_id}"
callback_data(run_id, scene_id, choice_id) ==
    "choice:" \o IntStr(run_id) \o ":" \o scene_id \o ":" \o choice_id

\* Mutant of build_keyboard: the buttons are appended last choice first.
build_keyboard_reversed(run_id, choices, scene_id) ==
    [i \in 1..Len(choices) |->
        << callback_data(run_id, scene_id, choices[Len(choices) + 1 - i].id) >>]

\* SceneRenderer._build_keyboard: one row of one button for each choice of the
\* list, in the order of the list.
build_keyboard(run_id, choices, scene_id) ==
    [i \in 1..Len(choices) |-> << callback_data(run_id, scene_id, choices[i].id) >>]

\* continue_story's return for a scene: render_scene(scene, scene_id, flags)
render_scene(t, story, scene_id) ==
    [Render(t, "scene", scene_id) EXCEPT
        !.keyboard = build_keyboard(t.run_id, StoryFiles[story].scenes[scene_id], scene_id)]

IdleTask ==
    [pc |-> "done", op |-> "none", track |-> FALSE, user_id |-> "", story_id |-> "",
     run_id |-> NoRun, scene_id |-> "", choice_id |-> "",
     story |-> NoStory, pos |-> NoScene, ei |-> 0, cur |-> 0, result |-> NoResult]

NoPre == [runs |-> << >>, flags |-> << >>]

\* No list_stories result is held.
NoListing == [ref |-> "none", map |-> << >>]

Init ==
    /\ stories = LoadStories
    /\ runs = << >>
    /\ flags = << >>
    /\ nextId = 1
    /\ now = 0
    /\ task = [p \in Procs |-> IdleTask]
    /\ pre = NoPre
    /\ disk = StoryDir
    /\ admin = "idle"
    /\ listing = NoListing

\* A task returns: its frame and locals are gone.  The result of a tracked
\* request (SpecSeq) stays in its slot until the handler has answered with it.
Returned(t, res) ==
    IF t.track THEN [IdleTask EXCEPT !.pc = "ret", !.result = res] ELSE IdleTask

\* The slot holds no request in flight.
AtRest(t) == t.pc \in {"done", "ret"}

\* An exception leaves the engine.  The choice and story_start handlers wrap
\* their body in try/except Exception and report; the other callers do not.
Raise(t, why) ==
    Returned(t, [op |-> t.op,
                 kind |-> IF t.op \in {"cb_choice", "story_start"}
                          THEN "error_reported" ELSE "raised",
                 id |-> "", run_id |-> NoRun, why |-> why, keyboard |-> << >>])

\* ------------------------------------------------------------ start_story
\* Mutant of SsGetActive: start_story does not look for an active run.
SsGetActiveNoLookup(p, t) ==
    LET story == get_story(t.story_id)
    IN  /\ task' = [task EXCEPT ![p] =
                 IF story = NoStory THEN Returned(t, Absent(t, "story_not_found"))
                 ELSE IF StoryFiles[story].start_scene = NoScene
                      THEN Returned(t, Absent(t, "no_start_scene"))
                 ELSE [t EXCEPT !.pc = "ss_create", !.story = story]]
        /\ UNCHANGED <<stories, runs, flags, nextId, now>>

\* start_story up to the create: get_story, get_active_run, the start_scene test
SsGetActive(p, t) ==
    LET story == get_story(t.story_id)
        cands == ActiveRunCandidates(t.user_id, t.story_id)
    IN  /\ \E active \in (IF cands = {} THEN {NoRun} ELSE cands) :
              task' = [task EXCEPT ![p] =
                 IF story = NoStory THEN Returned(t, Absent(t, "story_not_found"))
                 ELSE IF active # NoRun
                      THEN [t EXCEPT !.pc = "cs_get_run", !.run_id = active]
                 ELSE IF StoryFiles[story].start_scene = NoScene
                      THEN Returned(t, Absent(t, "no_start_scene"))
                 ELSE [t EXCEPT !.pc = "ss_create", !.story = story]]
        /\ UNCHANGED <<stories, runs, flags, nextId, now>>

\* Mutant of SsCreate: the table hands out the smallest run_id not in use
\* instead of AUTOINCREMENT's never-used one.
SsCreateReuseId(p, t) ==
    LET free == CHOOSE i \in RunIds : i \notin DOMAIN runs /\ \A j \in 1..(i-1) : j \in DOMAIN runs
    IN  /\ runs' = InsertRun(runs, free,
                         NewRunRow(t.user_id, t.story_id, StoryFiles[t.story].start_scene))
        /\ nextId' = nextId + 1
        /\ task' = [task EXCEPT ![p] = [t EXCEPT !.pc = "ss_create_select", !.run_id = free]]
        /\ UNCHANGED <<stories, flags, now>>

\* RunRepository.create, the INSERT: cursor.lastrowid is the new run_id
SsCreate(p, t) ==
    /\ runs' = InsertRun(runs, nextId,
                         NewRunRow(t.user_id, t.story_id, StoryFiles[t.story].start_scene))
    /\ nextId' = nextId + 1
    /\ task' = [task EXCEPT ![p] = [t EXCEPT !.pc = "ss_create_select", !.run_id = nextId]]
    /\ UNCHANGED <<stories, flags, now>>

\* RunRepository.create, the SELECT of the new row: row["run_id"] of a row that
\* is gone raises TypeError; otherwise start_story goes on to continue_story.
SsCreateSelect(p, t) ==
    /\ task' = [task EXCEPT ![p] =
           IF t.run_id \in DOMAIN runs
           THEN [t EXCEPT !.pc = "cs_get_run", !.story = NoStory]
           ELSE Raise(t, "TypeError")]
    /\ UNCHANGED <<stories, runs, flags, nextId, now>>

\* --------------------------------------------------------- continue_story
\* continue_story: _get_run_by_id, get_story, the ending / scene test and, for
\* a scene, the render.  _render_ending's "if not ending" is the test of the
\* ending mapping's truthiness.
CsGetRun(p, t) ==
    /\ task' = [task EXCEPT ![p] =
          IF t.run_id \notin DOMAIN runs THEN Returned(t, Absent(t, "run_not_found"))
          ELSE LET run   == runs[t.run_id]
                   story == get_story(run.story_id)
                   scene_id == run.current_scene
               IN  IF story = NoStory THEN Returned(t, Absent(t, "story_not_found"))
                   ELSE IF scene_id \in EndingIds(story)
                        THEN IF ~StoryFiles[story].endings[scene_id]
                             THEN Returned(t, Render(t, "ending_error", ""))
                             ELSE [t EXCEPT !.pc = "re_finish", !.pos = scene_id,
                                            !.story = story]
                   ELSE IF scene_id \notin SceneIds(story)
                        THEN Returned(t, Absent(t, "scene_not_found"))
                   ELSE Returned(t, render_scene(t, story, scene_id))]
    /\ UNCHANGED <<stories, runs, flags, nextId, now>>

\* _render_ending: finish_run, then the ending's render
ReFinish(p, t) ==
    /\ runs' = finish_run(runs, t.run_id)
    /\ task' = [task EXCEPT ![p] = Returned(t, Render(t, "ending", t.pos))]
    /\ UNCHANGED <<stories, flags, nextId, now>>

\* --------------------------------------------------------- process_choice
\* Mutant of TheChoice: the choice with its effect list back to front.
TheChoiceEffectsReversed(t) ==
    LET choices == StoryFiles[t.story].scenes[t.scene_id]
        c       == choices[FindChoice(choices, t.choice_id)]
    IN  [c EXCEPT !.effects = [j \in 1..Len(c.effects) |-> c.effects[Len(c.effects) + 1 - j]]]

\* The choice a task past its lookups is working on.
TheChoice(t) ==
    LET choices == StoryFiles[t.story].scenes[t.scene_id]
    IN  choices[FindChoice(choices, t.choice_id)]

\* Mutant of TaskAfterEffects: update_scene is called without the next_scene test.
TaskAfterEffectsNoTest(t, choice) ==
    [t EXCEPT !.pc = "pc_update", !.ei = 0, !.cur = 0]

\* process_choice after apply_effects: the next_scene test
TaskAfterEffects(t, choice) ==
    IF choice.next_scene = NoScene
    THEN Returned(t, Absent(t, "no_next_scene"))
    ELSE [t EXCEPT !.pc = "pc_update", !.ei = 0, !.cur = 0]

\* process_choice after check_conditions passed: apply_effects ("if not effects: return")
TaskAfterConditions(t, choice) ==
    IF Len(choice.effects) = 0
    THEN TaskAfterEffects(t, choice)
    ELSE [t EXCEPT !.pc = "ef_apply", !.ei = 1]

\* apply_effects: on to the next effect of the list, or out of the loop
TaskNextEffect(t, choice) ==
    IF t.ei < Len(choice.effects)
    THEN [t EXCEPT !.pc = "ef_apply", !.ei = t.ei + 1, !.cur = 0]
    ELSE TaskAfterEffects(t, choice)

\* process_choice: _get_run_by_id, then the story, scene and choice lookups;
\* check_conditions returns True for an empty list without reading the flags.
PcGetRun(p, t) ==
    /\ task' = [task EXCEPT ![p] =
          IF t.run_id \notin DOMAIN runs THEN Returned(t, Absent(t, "run_not_found"))
          ELSE LET story == get_story(runs[t.run_id].story_id)
               IN  IF story = NoStory THEN Returned(t, Absent(t, "story_not_found"))
                   ELSE IF t.scene_id \notin SceneIds(story)
                        THEN Returned(t, Absent(t, "scene_not_found"))
                   ELSE LET choices == StoryFiles[story].scenes[t.scene_id]
                            i       == FindChoice(choices, t.choice_id)
                        IN  IF i = 0 THEN Returned(t, Absent(t, "choice_not_found"))
                            ELSE IF Len(choices[i].conditions) = 0
                                 THEN TaskAfterConditions([t EXCEPT !.story = story],
                                                          choices[i])
                            ELSE [t EXCEPT !.pc = "cc_load_flags", !.story = story]]
    /\ UNCHANGED <<stories, runs, flags, nextId, now>>

\* check_conditions: load_flags, then every condition against that one read
CcLoadFlags(p, t) ==
    LET choice == TheChoice(t)
        stop   == FirstStop(choice.conditions, get_flags(t.run_id))
    IN  /\ task' = [task EXCEPT ![p] =
              IF stop # 0 /\ choice.conditions[stop].kind = ""
              THEN Raise(t, "IndexError")
              ELSE IF check_conditions(choice.conditions, get_flags(t.run_id))
                   THEN TaskAfterConditions(t, choice)
                   ELSE Returned(t, Absent(t, "conditions"))]
        /\ UNCHANGED <<stories, runs, flags, nextId, now>>

\* Mutant of EfApply: an effect of an unknown kind aborts the choice.
EfApplyStrict(p, t) ==
    LET choice == TheChoice(t)
        eff    == choice.effects[t.ei]
        cache  == get_flags(t.run_id)
    IN  /\ CASE eff.kind = "add_flag" ->
                  /\ flags' = SetFlagRow(flags, t.run_id, eff.flag, "1")
                  /\ task' = [task EXCEPT ![p] = TaskNextEffect(t, choice)]
             [] eff.kind = "remove_flag" ->
                  /\ flags' = RemoveFlagRow(flags, t.run_id, eff.flag)
                  /\ task' = [task EXCEPT ![p] = TaskNextEffect(t, choice)]
             [] eff.kind = "set_flag" ->
                  /\ flags' = IF eff.flag = "" THEN flags
                              ELSE SetFlagRow(flags, t.run_id, eff.flag,
                                      IF eff.value.t = "missing" THEN "1"
                                      ELSE PyStr(eff.value))
                  /\ task' = [task EXCEPT ![p] = TaskNextEffect(t, choice)]
             [] eff.kind = "increment_counter" ->
                  /\ flags' = flags
                  /\ task' = [task EXCEPT ![p] =
                        IF eff.flag \in DOMAIN cache /\ ~IsIntStr(cache[eff.flag])
                        THEN Raise(t, "ValueError")
                        ELSE [t EXCEPT !.pc = "ef_inc_write",
                                       !.cur = IF eff.flag \in DOMAIN cache
                                               THEN PyInt(cache[eff.flag]) ELSE 0]]
             [] eff.kind = "" ->
                  /\ flags' = flags
                  /\ task' = [task EXCEPT ![p] = Raise(t, "IndexError")]
             [] OTHER ->
                  /\ flags' = flags
                  /\ task' = [task EXCEPT ![p] = Raise(t, "ValueError")]
        /\ UNCHANGED <<stories, runs, nextId, now>>

\* _apply_single_effect on effect number ei of the choice
EfApply(p, t) ==
    LET choice == TheChoice(t)
        eff    == choice.effects[t.ei]
        cache  == get_flags(t.run_id)
    IN  /\ CASE eff.kind = "add_flag" ->
                  /\ flags' = SetFlagRow(flags, t.run_id, eff.flag, "1")
                  /\ task' = [task EXCEPT ![p] = TaskNextEffect(t, choice)]
             [] eff.kind = "remove_flag" ->
                  /\ flags' = RemoveFlagRow(flags, t.run_id, eff.flag)
                  /\ task' = [task EXCEPT ![p] = TaskNextEffect(t, choice)]
             [] eff.kind = "set_flag" ->
                  /\ flags' = IF eff.flag = "" THEN flags
                              ELSE SetFlagRow(flags, t.run_id, eff.flag,
                                      IF eff.value.t = "missing" THEN "1"
                                      ELSE PyStr(eff.value))
                  /\ task' = [task EXCEPT ![p] = TaskNextEffect(t, choice)]
             [] eff.kind = "increment_counter" ->
                  /\ flags' = flags
                  /\ task' = [task EXCEPT ![p] =
                        IF eff.flag \in DOMAIN cache /\ ~IsIntStr(cache[eff.flag])
                        THEN Raise(t, "ValueError")
                        ELSE [t EXCEPT !.pc = "ef_inc_write",
                                       !.cur = IF eff.flag \in DOMAIN cache
                                               THEN PyInt(cache[eff.flag]) ELSE 0]]
             [] eff.kind = "" ->
                  /\ flags' = flags
                  /\ task' = [task EXCEPT ![p] = Raise(t, "IndexError")]
             [] OTHER ->
                  /\ flags' = flags
                  /\ task' = [task EXCEPT ![p] = TaskNextEffect(t, choice)]
        /\ UNCHANGED <<stories, runs, nextId, now>>

\* Mutant of EfIncWrite: the counter is written back without the + 1.
EfIncWriteSame(p, t) ==
    LET choice == TheChoice(t)
    IN  /\ flags' = SetFlagRow(flags, t.run_id, choice.effects[t.ei].flag, IntStr(t.cur))
        /\ task' = [task EXCEPT ![p] = TaskNextEffect(t, choice)]
        /\ UNCHANGED <<stories, runs, nextId, now>>

\* _increment_counter: set_flag(counter_name, str(current_value + 1))
EfIncWrite(p, t) ==
    LET choice == TheChoice(t)
    IN  /\ flags' = SetFlagRow(flags, t.run_id, choice.effects[t.ei].flag, IntStr(t.cur + 1))
        /\ task' = [task EXCEPT ![p] = TaskNextEffect(t, choice)]
        /\ UNCHANGED <<stories, runs, nextId, now>>

\* Mutant of PcUpdate: update_scene writes only while the run is still at the
\* scene the choice was taken from.
PcUpdateIfStillThere(p, t) ==
    /\ runs' = IF t.run_id \in DOMAIN runs /\ runs[t.run_id].current_scene = t.scene_id
               THEN update_scene(runs, t.run_id, TheChoice(t).next_scene)
               ELSE runs
    /\ task' = [task EXCEPT ![p] = [t EXCEPT !.pc = "cs_get_run", !.story = NoStory]]
    /\ UNCHANGED <<stories, flags, nextId, now>>

\* Mutant of PcUpdate: update_scene is handed the choice's id for the scene.
PcUpdateChoiceId(p, t) ==
    /\ runs' = update_scene(runs, t.run_id, t.choice_id)
    /\ task' = [task EXCEPT ![p] = [t EXCEPT !.pc = "cs_get_run", !.story = NoStory]]
    /\ UNCHANGED <<stories, flags, nextId, now>>

\* process_choice: update_scene(run_id, next_scene), then continue_story
PcUpdate(p, t) ==
    /\ runs' = update_scene(runs, t.run_id, TheChoice(t).next_scene)
    /\ task' = [task EXCEPT ![p] = [t EXCEPT !.pc = "cs_get_run", !.story = NoStory]]
    /\ UNCHANGED <<stories, flags, nextId, now>>

\* ---------------------------------------------------------------- handlers
\* Mutant of CbGetRun: the handler does not compare the run's owner with the
\* user of the callback.
CbGetRunNoOwnerGuard(p, t) ==
    /\ task' = [task EXCEPT ![p] =
          IF t.run_id \notin DOMAIN runs THEN Returned(t, Outcome(t, "run_not_found"))
          ELSE IF runs[t.run_id].is_finished THEN Returned(t, Outcome(t, "ignored"))
          ELSE IF runs[t.run_id].current_scene # t.scene_id
               THEN [t EXCEPT !.pc = "cs_get_run"]
          ELSE [t EXCEPT !.pc = "pc_get_run"]]
    /\ UNCHANGED <<stories, runs, flags, nextId, now>>

\* Mutant of CbGetRun: the handler does not compare the callback's scene with
\* the run's position.
CbGetRunNoSceneGuard(p, t) ==
    /\ task' = [task EXCEPT ![p] =
          IF t.run_id \notin DOMAIN runs THEN Returned(t, Outcome(t, "run_not_found"))
          ELSE IF runs[t.run_id].user_id # t.user_id THEN Returned(t, Outcome(t, "ignored"))
          ELSE IF runs[t.run_id].is_finished THEN Returned(t, Outcome(t, "ignored"))
          ELSE [t EXCEPT !.pc = "pc_get_run"]]
    /\ UNCHANGED <<stories, runs, flags, nextId, now>>

\* bot.py process_choice: the run's owner, finished and scene guards
CbGetRun(p, t) ==
    /\ task' = [task EXCEPT ![p] =
          IF t.run_id \notin DOMAIN runs THEN Returned(t, Outcome(t, "run_not_found"))
          ELSE IF runs[t.run_id].user_id # t.user_id THEN Returned(t, Outcome(t, "ignored"))
          ELSE IF runs[t.run_id].is_finished THEN Returned(t, Outcome(t, "ignored"))
          ELSE IF runs[t.run_id].current_scene # t.scene_id
               THEN [t EXCEPT !.pc = "cs_get_run"]
          ELSE [t EXCEPT !.pc = "pc_get_run"]]
    /\ UNCHANGED <<stories, runs, flags, nextId, now>>

\* The finished-run query of handlers/menu.py start_story
has_finished(user_id, story_id) ==
    \E r \in DOMAIN runs : /\ runs[r].user_id = user_id
                           /\ runs[r].story_id = story_id
                           /\ runs[r].is_finished

\* handlers/menu.py start_story: get_story, the finished-run query, allow_restart
StHasFinished(p, t) ==
    LET story == get_story(t.story_id)
    IN  /\ task' = [task EXCEPT ![p] =
              IF story = NoStory THEN Returned(t, Outcome(t, "story_not_found"))
              ELSE IF has_finished(t.user_id, t.story_id) /\ ~StoryFiles[story].allow_restart
                   THEN Returned(t, Outcome(t, "already_finished"))
              ELSE [t EXCEPT !.pc = "rr_del_flags"]]
        /\ UNCHANGED <<stories, runs, flags, nextId, now>>

\* reset_run, first statement: DELETE FROM flags WHERE run_id IN (the pair's unfinished runs)
RrDelFlags(p, t) ==
    /\ flags' = [k \in {q \in DOMAIN flags : q[1] \notin ActiveRuns(t.user_id, t.story_id)}
                    |-> flags[k]]
    /\ task' = [task EXCEPT ![p] = [t EXCEPT !.pc = "rr_del_runs"]]
    /\ UNCHANGED <<stories, runs, nextId, now>>

\* Mutant of RrDelRuns: the DELETE has no "AND is_finished = 0".
RrDelRunsFinishedToo(p, t) ==
    /\ runs' = [r \in {q \in DOMAIN runs : ~(/\ runs[q].user_id = t.user_id
                                              /\ runs[q].story_id = t.story_id)}
                    |-> runs[r]]
    /\ task' = [task EXCEPT ![p] =
          IF t.op = "reset_run" THEN Returned(t, Outcome(t, "reset"))
          ELSE [t EXCEPT !.pc = "ss_get_active"]]
    /\ UNCHANGED <<stories, flags, nextId, now>>

\* reset_run, second statement: DELETE FROM runs WHERE the pair's unfinished runs;
\* story_start and story_restart go on to start_story.
RrDelRuns(p, t) ==
    /\ runs' = [r \in (DOMAIN runs) \ ActiveRuns(t.user_id, t.story_id) |-> runs[r]]
    /\ task' = [task EXCEPT ![p] =
          IF t.op = "reset_run" THEN Returned(t, Outcome(t, "reset"))
          ELSE [t EXCEPT !.pc = "ss_get_active"]]
    /\ UNCHANGED <<stories, flags, nextId, now>>

\* The statement task record t is at, run for slot p.
Run(p, t) ==
    \/ t.pc = "ss_get_active"    /\ SsGetActive(p, t)
    \/ t.pc = "ss_create"        /\ SsCreate(p, t)
    \/ t.pc = "ss_create_select" /\ SsCreateSelect(p, t)
    \/ t.pc = "cs_get_run"       /\ CsGetRun(p, t)
    \/ t.pc = "re_finish"        /\ ReFinish(p, t)
    \/ t.pc = "pc_get_run"       /\ PcGetRun(p, t)
    \/ t.pc = "cc_load_flags"    /\ CcLoadFlags(p, t)
    \/ t.pc = "ef_apply"         /\ EfApply(p, t)
    \/ t.pc = "ef_inc_write"     /\ EfIncWrite(p, t)
    \/ t.pc = "pc_update"        /\ PcUpdate(p, t)
    \/ t.pc = "cb_get_run"       /\ CbGetRun(p, t)
    \/ t.pc = "st_has_finished"  /\ StHasFinished(p, t)
    \/ t.pc = "rr_del_flags"     /\ RrDelFlags(p, t)
    \/ t.pc = "rr_del_runs"      /\ RrDelRuns(p, t)

\* ---------------------------------------------------------------- requests
StartOps == {"start_story", "story_start", "story_restart"}

\* A request that may create a run arrives only while AUTOINCREMENT has an id
\* left for it within MaxRuns.
IdsLeft ==
    nextId + Cardinality({q \in Procs : task[q].pc # "done" /\ task[q].op \in StartOps})
        <= MaxRuns

Request(op, pc, user_id, story_id, run_id, scene_id, choice_id) ==
    [IdleTask EXCEPT !.pc = pc, !.op = op, !.user_id = user_id, !.story_id = story_id,
                     !.run_id = run_id, !.scene_id = scene_id, !.choice_id = choice_id]

\* The requests the bot's handlers turn into engine and repository calls:
\*   /play and /start_story <story_id>        story_engine.start_story
\*   repeat_scene:<run_id>                     story_engine.continue_story
\*   choice:<run_id>:<scene_id>:<choice_id>    bot.py process_choice
\*   story_start:<story_id>                    handlers/menu.py start_story
\*   story_restart:<story_id>                  handlers/menu.py restart_story
\*   reset_confirm:<story_id>, /reset_story    RunRepository.reset_run
Requests(U) ==
    {Request("start_story", "ss_get_active", u, s, NoRun, "", "") :
        u \in U, s \in (IF IdsLeft THEN StoryIdInputs ELSE {})}
    \cup {Request("continue_story", "cs_get_run", "", "", r, "", "") : r \in RunIds}
    \cup {Request("cb_choice", "cb_get_run", x[1], "", x[2], x[3][1], x[3][2]) :
        x \in U \X RunIds \X ChoiceInputs}
    \cup {Request("story_start", "st_has_finished", u, s, NoRun, "", "") :
        u \in U, s \in (IF IdsLeft THEN StoryIdInputs ELSE {})}
    \cup {Request("story_restart", "rr_del_flags", u, s, NoRun, "", "") :
        u \in U, s \in (IF IdsLeft THEN StoryIdInputs ELSE {})}
    \cup {Request("reset_run", "rr_del_flags", u, s, NoRun, "", "") :
        u \in U, s \in StoryIdInputs}

\* A request arrives in a free slot and runs to its first await.
Call(p, track, U) ==
    /\ task[p].pc = "done"
    /\ \E t \in Requests(U) : Run(p, [t EXCEPT !.track = track])
    /\ pre' = IF track /\ ~AtRest(task'[p])
              THEN [runs |-> runs, flags |-> flags] ELSE NoPre
    /\ UNCHANGED source

\* A task in flight runs from one await to the next.
Step(p) ==
    /\ ~AtRest(task[p])
    /\ Run(p, task[p])
    /\ pre' = IF AtRest(task'[p]) THEN NoPre ELSE pre
    /\ UNCHANGED source

\* The handler answers the user with the result and is done.
Answer(p) ==
    /\ task[p].pc = "ret"
    /\ task' = [task EXCEPT ![p] = IdleTask]
    /\ UNCHANGED <<stories, runs, flags, nextId, now, pre>>
    /\ UNCHANGED source

\* CURRENT_TIMESTAMP moves on.
Tick ==
    /\ now < MaxClock
    /\ now' = now + 1
    /\ UNCHANGED <<stories, runs, flags, nextId, task, pre>>
    /\ UNCHANGED source

\* The bot as it runs: the requests of the task slots interleave at their awaits.
Next ==
    \/ \E p \in Procs : Call(p, FALSE, {"u1"})
    \/ \E p \in Procs : Step(p)
    \/ Tick

Spec == Init /\ [][Next]_vars

\* The bot handling one request at a time, each to completion, with the tables
\* at the request's arrival remembered in pre.
NextSeq ==
    \/ Call("p1", TRUE, Users)
    \/ Step("p1")
    \/ Answer("p1")
    \/ Tick

SpecSeq == Init /\ [][NextSeq]_vars

\* One user plays story s3, whose scene H carries every kind of condition and
\* effect, one request at a time.
FxChoiceInputs ==
    {<<"H", StoryFiles["s3"].scenes["H"][i].id>> : i \in 1..Len(StoryFiles["s3"].scenes["H"])}
    \cup {<<"G", StoryFiles["s3"].scenes["G"][i].id>> : i \in 1..Len(StoryFiles["s3"].scenes["G"])}

\* str(current_value + 1) stays among the strings of 0..MaxInt.
CounterRoom(run_id) ==
    ~(<<run_id, "n">> \in DOMAIN flags /\ flags[<<run_id, "n">>] = IntStr(MaxInt))

RequestsFx ==
    {Request("start_story", "ss_get_active", "u1", s, NoRun, "", "") :
        s \in (IF IdsLeft THEN {"s3"} ELSE {})}
    \cup {Request("cb_choice", "cb_get_run", "u1", "", x[1], x[2][1], x[2][2]) :
        x \in {y \in RunIds \X FxChoiceInputs : y[2][2] = "inc" => CounterRoom(y[1])}}

CallFx(p) ==
    /\ task[p].pc = "done"
    /\ \E t \in RequestsFx : Run(p, [t EXCEPT !.track = TRUE])
    /\ pre' = IF ~AtRest(task'[p]) THEN [runs |-> runs, flags |-> flags] ELSE NoPre
    /\ UNCHANGED source

NextFx ==
    \/ CallFx("p1")
    \/ Step("p1")
    \/ Answer("p1")

SpecFx == Init /\ [][NextFx]_vars

\* Two users start story s2 and take its choice to the ending, their requests
\* interleaving: two start_story calls that both found no active run leave a
\* pair with two unfinished runs, and a later call has get_active_run choose.
RaceRunIds == 1..(MaxRuns + 1)

RaceIdsLeft ==
    nextId + Cardinality({q \in Procs : task[q].pc # "done" /\ task[q].op \in StartOps})
        <= MaxRuns + 1

RequestsRace ==
    {Request("start_story", "ss_get_active", u, "s2", NoRun, "", "") :
        u \in (IF RaceIdsLeft THEN Users ELSE {})}
    \cup {Request("cb_choice", "cb_get_run", x[1], "", x[2], "S", "fin") :
        x \in Users \X RaceRunIds}

CallRace(p) ==
    /\ task[p].pc = "done"
    /\ \E t \in RequestsRace : Run(p, t)
    /\ UNCHANGED pre
    /\ UNCHANGED source

NextRace ==
    \/ \E p \in Procs : CallRace(p)
    \/ \E p \in Procs : Step(p)
    \/ Tick

SpecRace == Init /\ [][NextRace]_vars

(* The story source is administered while one user plays stories s4 and    *)
(* s5.  The directory starts with s4.yaml as written by hand, or not       *)
(* parsable, and with s5.yaml in every state a file can be in.             *)
AdminDirs ==
    {[f \in FileNames |-> IF f = "s4.yaml" THEN c[1]
                          ELSE IF f = "s5.yaml" THEN c[2] ELSE "absent"] :
        c \in {"s4", "garbage"} \X {"absent", "empty", "garbage", "anon", "s5", "s5d"}}

InitAdmin ==
    /\ disk \in AdminDirs
    /\ stories = reload_stories(disk)
    /\ runs = << >>
    /\ flags = << >>
    /\ nextId = 1
    /\ now = 0
    /\ task = [p \in Procs |-> IdleTask]
    /\ pre = NoPre
    /\ admin = "idle"
    /\ listing = NoListing

AdminChoiceInputs ==
    { <<"P", "go">>, <<"P", "stay">>, <<"P", "lost">>, <<"P", "end">>, <<"Q", "back">> }

RequestsAdmin ==
    {Request("start_story", "ss_get_active", "u1", s, NoRun, "", "") :
        s \in (IF IdsLeft THEN {"s4", "s5"} ELSE {})}
    \cup {Request("continue_story", "cs_get_run", "", "", r, "", "") : r \in RunIds}
    \cup {Request("cb_choice", "cb_get_run", "u1", "", x[1], x[2][1], x[2][2]) :
        x \in RunIds \X AdminChoiceInputs}

\* The request's tables at arrival, and the story object process_choice (or
\* _render_ending) last fetched from the index into its local.
CallAdmin(p) ==
    /\ task[p].pc = "done"
    /\ \E t \in RequestsAdmin : Run(p, [t EXCEPT !.track = TRUE])
    /\ pre' = IF ~AtRest(task'[p])
              THEN [runs |-> runs, flags |-> flags, story |-> task'[p].story]
              ELSE NoPre
    /\ UNCHANGED source

StepAdmin(p) ==
    /\ ~AtRest(task[p])
    /\ Run(p, task[p])
    /\ pre' = IF AtRest(task'[p]) THEN NoPre
              ELSE [pre EXCEPT !.story = IF task'[p].story # NoStory
                                         THEN task'[p].story ELSE @]
    /\ UNCHANGED source

UploadInputs == {"s4b", "s4x", "s5d", "anon", "garbage", "empty"}

\* admin/editor.py process_yaml_upload / confirm_upload: parse_yaml, the id
\* test, save_story; the reload follows the await of the answer.
AdmUpload(content) ==
    /\ admin = "idle"
    /\ IF IsMapping(content) /\ StoryFiles[content].id # "" /\ ~SaveRefuses(content)
       THEN /\ disk' = [disk EXCEPT ![FileOf(StoryFiles[content].id)] = content]
            /\ admin' = "reload"
       ELSE UNCHANGED <<disk, admin>>
    /\ UNCHANGED <<stories, runs, flags, nextId, now, task, pre, listing>>

\* admin/editor.py confirm_delete: delete_story moves the file away; the
\* reload follows the await of the answer.
AdmDelete(story_id) ==
    /\ admin = "idle"
    /\ disk[FileOf(story_id)] # "absent"
    /\ disk' = [disk EXCEPT ![FileOf(story_id)] = "absent"]
    /\ admin' = "reload"
    /\ UNCHANGED <<stories, runs, flags, nextId, now, task, pre, listing>>

\* Mutant of AdmReload: the handler gives way between the clear and the load.
AdmReloadClearOnly ==
    /\ admin = "reload"
    /\ stories' = << >>
    /\ admin' = "idle"
    /\ UNCHANGED <<runs, flags, nextId, now, task, pre, disk, listing>>

\* story_engine.reload_stories() in the handlers: clear and load, in one go
AdmReload ==
    /\ admin = "reload"
    /\ stories' = reload_stories(disk)
    /\ admin' = "idle"
    /\ UNCHANGED <<runs, flags, nextId, now, task, pre, disk, listing>>

\* admin/editor.py cmd_admin_stories: stories = story_engine.list_stories(),
\* held over the awaits of the answers
ListStories ==
    /\ listing = NoListing
    /\ listing' = list_stories
    /\ UNCHANGED <<stories, runs, flags, nextId, now, task, pre, disk, admin>>

\* cmd_admin_stories returns.
ListDone ==
    /\ listing # NoListing
    /\ listing' = NoListing
    /\ UNCHANGED <<stories, runs, flags, nextId, now, task, pre, disk, admin>>

NextAdmin ==
    \/ CallAdmin("p1")
    \/ StepAdmin("p1")
    \/ Answer("p1")
    \/ \E c \in UploadInputs : AdmUpload(c)
    \/ AdmDelete("s4")
    \/ AdmReload
    \/ ListStories
    \/ ListDone

SpecAdmin == InitAdmin /\ [][NextAdmin]_vars

(* The users start stories s1 and s2 and press "Continue" in the menu, one  *)
(* request at a time while the clock moves on: a user comes to have        *)
(* unfinished runs of two stories, started at different times.             *)
\* handlers/menu.py continue_story: [r for r in all_runs if r.user_id == user_id]
user_runs(user_id) ==
    {r \in DOMAIN runs : ~runs[r].is_finished /\ runs[r].user_id = user_id}

\* user_runs[-1] of the rows get_all_active_runs returns ORDER BY started_at
\* DESC: the last of the list, a run none of the user's was started before
\* (rows with the same started_at are in no defined order).
LastOfUserRuns(user_id) ==
    {r \in user_runs(user_id) :
        \A q \in user_runs(user_id) : runs[r].started_at <= runs[q].started_at}

\* handlers/menu.py continue_story: get_all_active_runs, the user's runs, the
\* pick, then story_engine.continue_story(run.run_id)
MenuContinue(p, user_id) ==
    LET t == [Request("menu_continue", "mc_get_runs", user_id, "", NoRun, "", "")
                 EXCEPT !.track = TRUE]
    IN  /\ task[p].pc = "done"
        /\ IF user_runs(user_id) = {}
           THEN task' = [task EXCEPT ![p] = Returned(t, Outcome(t, "no_active_story"))]
           ELSE \E r \in LastOfUserRuns(user_id) :
                   task' = [task EXCEPT ![p] = [t EXCEPT !.pc = "cs_get_run", !.run_id = r]]
        /\ pre' = IF ~AtRest(task'[p]) THEN [runs |-> runs, flags |-> flags] ELSE NoPre
        /\ UNCHANGED <<stories, runs, flags, nextId, now>>
        /\ UNCHANGED source

RequestsMenu ==
    {Request("start_story", "ss_get_active", u, s, NoRun, "", "") :
        u \in Users, s \in (IF IdsLeft THEN {"s1", "s2"} ELSE {})}
    \cup {Request("cb_choice", "cb_get_run", x[1], "", x[2], x[3][1], x[3][2]) :
        x \in Users \X RunIds \X {<<"A", "quit">>, <<"S", "fin">>}}

CallMenu(p) ==
    /\ task[p].pc = "done"
    /\ \E t \in RequestsMenu : Run(p, [t EXCEPT !.track = TRUE])
    /\ pre' = IF ~AtRest(task'[p]) THEN [runs |-> runs, flags |-> flags] ELSE NoPre
    /\ UNCHANGED source

NextMenu ==
    \/ CallMenu("p1")
    \/ \E u \in Users : MenuContinue("p1", u)
    \/ Step("p1")
    \/ Answer("p1")
    \/ Tick

SpecMenu == Init /\ [][NextMenu]_vars

\* ================================================================ claims
\* The tables as they were when the request that takes this step arrived.
Before(p) == IF task[p].pc = "done" THEN [runs |-> runs, flags |-> flags] ELSE pre

\* Slot p's request, in flight before this step, returns in it.
ReturnsNow(p) == ~AtRest(task[p]) /\ AtRest(task'[p])

\* The story a story id names has a start position: a start_scene that is one
\* of its scenes or endings.
HasStartPosition(story_id) ==
    /\ get_story(story_id) # NoStory
    /\ StoryFiles[get_story(story_id)].start_scene
          \in SceneIds(get_story(story_id)) \cup EndingIds(get_story(story_id))

StartSceneOf(story_id) == StoryFiles[get_story(story_id)].start_scene

\* ------------------------------------------------------------------- C1
(* C1: start_story(user, story) for a loaded story with a start position,  *)
(* called when the user has no unfinished run of the story, creates        *)
(* exactly one new run: when the call returns, the runs are those of       *)
(* before the call, unchanged, plus one run owned by that user and story   *)
(* at start_scene, and the call returns that run's id; the run is inserted *)
(* unfinished (and is still unfinished on return when start_scene is a     *)
(* scene).                                                                 *)
C1_StartCreatesOneRun ==
    [][\A p \in Procs :
        LET t == task[p]
            B == Before(p)
        IN  /\ (/\ ReturnsNow(p)
                /\ t.op = "start_story"
                /\ HasStartPosition(t.story_id)
                /\ ActiveIn(B.runs, t.user_id, t.story_id) = {})
               => \E r \in DOMAIN runs' :
                     /\ r \notin DOMAIN B.runs
                     /\ DOMAIN runs' = DOMAIN B.runs \cup {r}
                     /\ \A q \in DOMAIN B.runs : runs'[q] = B.runs[q]
                     /\ runs'[r].user_id = t.user_id
                     /\ runs'[r].story_id = t.story_id
                     /\ runs'[r].current_scene = StartSceneOf(t.story_id)
                     /\ (StartSceneOf(t.story_id) \in SceneIds(get_story(t.story_id))
                            => ~runs'[r].is_finished)
                     /\ task'[p].result.run_id = r
            /\ (t.pc = "ss_create" /\ task'[p] # t)
               => /\ task'[p].run_id \notin DOMAIN runs
                  /\ DOMAIN runs' = DOMAIN runs \cup {task'[p].run_id}
                  /\ ~runs'[task'[p].run_id].is_finished
                  /\ runs'[task'[p].run_id].finished_at = Null
    ]_vars

\* C1's case: a start_story request that found no unfinished run of its pair
\* has inserted its run and is about to render it.
C1_Witness ==
    \E p \in Procs :
        /\ task[p].op = "start_story"
        /\ task[p].pc = "cs_get_run"
        /\ ActiveIn(pre.runs, task[p].user_id, task[p].story_id) = {}
        /\ task[p].run_id \in DOMAIN runs
        /\ task[p].run_id \notin DOMAIN pre.runs

\* ------------------------------------------------------------------- C2
(* C2: start_story(user, story) called while the user has an unfinished    *)
(* run of the story creates no run: it returns that run's id with the      *)
(* render of the run's current position, and leaves the runs and the flags *)
(* as they were (so repeating the call changes nothing either).            *)
C2_StartIsIdempotent ==
    [][\A p \in Procs :
        LET t == task[p]
            B == Before(p)
            A == ActiveIn(B.runs, t.user_id, t.story_id)
        IN  (/\ ReturnsNow(p)
             /\ t.op = "start_story"
             /\ get_story(t.story_id) # NoStory
             /\ A # {})
            => /\ runs' = B.runs
               /\ flags' = B.flags
               /\ task'[p].result.run_id \in A
               /\ task'[p].result.kind \in {"scene", "ending", "ending_error"}
               /\ LET pos == B.runs[task'[p].result.run_id].current_scene
                  IN  pos \in SceneIds(get_story(t.story_id))
                         => /\ task'[p].result.kind = "scene"
                            /\ task'[p].result.id = pos
    ]_vars

\* C2's case: a start_story request found the unfinished run of its pair and
\* is about to render it.
C2_Witness ==
    \E p \in Procs :
        /\ task[p].op = "start_story"
        /\ task[p].pc = "cs_get_run"
        /\ task[p].run_id \in ActiveIn(pre.runs, task[p].user_id, task[p].story_id)
        /\ runs = pre.runs

\* ------------------------------------------------------------------- C3
\* The choice a callback names in the story of its run, as an index (0: none).
\* The callback reaches process_choice when bot.py's guards let it through.
CalledChoice(t, B) ==
    IF /\ t.op = "cb_choice"
       /\ t.run_id \in DOMAIN B.runs
       /\ B.runs[t.run_id].user_id = t.user_id
       /\ ~B.runs[t.run_id].is_finished
       /\ B.runs[t.run_id].current_scene = t.scene_id
       /\ get_story(B.runs[t.run_id].story_id) # NoStory
       /\ t.scene_id \in SceneIds(get_story(B.runs[t.run_id].story_id))
    THEN FindChoice(StoryFiles[get_story(B.runs[t.run_id].story_id)].scenes[t.scene_id],
                    t.choice_id)
    ELSE 0

ChoiceAt(t, B, i) ==
    StoryFiles[get_story(B.runs[t.run_id].story_id)].scenes[t.scene_id][i]

\* Every condition of the list is one of the three kinds and holds of the flags.
AllSatisfied(conditions, fl) ==
    \A i \in 1..Len(conditions) :
        \/ conditions[i].kind = "has_flag" /\ conditions[i].flag \in DOMAIN fl
        \/ conditions[i].kind = "not_has_flag" /\ conditions[i].flag \notin DOMAIN fl
        \/ /\ conditions[i].kind = "flag_equals"
           /\ conditions[i].flag \in DOMAIN fl
           /\ conditions[i].value.t \in {"int", "str"}
           /\ fl[conditions[i].flag] = PyStr(conditions[i].value)

(* C3: a process_choice call on a choice whose conditions are not all      *)
(* satisfied by the run's flags returns absent and leaves the run's        *)
(* position (and the whole runs and flags tables) as before the call.      *)
C3_DeniedChoiceKeepsPosition ==
    [][\A p \in Procs :
        LET t == task[p]
            B == Before(p)
            i == CalledChoice(t, B)
        IN  (/\ ReturnsNow(p)
             /\ i # 0
             /\ ~AllSatisfied(ChoiceAt(t, B, i).conditions, FlagsOf(B.flags, t.run_id)))
            => /\ task'[p].result.kind = "absent"
               /\ runs'[t.run_id].current_scene = B.runs[t.run_id].current_scene
               /\ runs' = B.runs
               /\ flags' = B.flags
    ]_vars

\* C3's case: process_choice has turned a choice down on its conditions.
C3_Witness ==
    \E p \in Procs :
        /\ task[p].result.op = "cb_choice"
        /\ task[p].result.kind = "absent"
        /\ task[p].result.why = "conditions"

\* ------------------------------------------------------------------- C4
(* C4: every accepted process_choice whose choice's next_scene is an       *)
(* ending id returns the ending render, and on return the run's position   *)
(* is that ending id and the run is finished; when next_scene is a scene   *)
(* id the run's position is that scene and the run stays unfinished.       *)
C4_AcceptedChoiceMoves ==
    [][\A p \in Procs :
        LET t == task[p]
            B == Before(p)
            i == CalledChoice(t, B)
        IN  (/\ ReturnsNow(p)
             /\ i # 0
             /\ AllSatisfied(ChoiceAt(t, B, i).conditions, FlagsOf(B.flags, t.run_id))
             /\ task'[p].result.kind \notin {"raised", "error_reported"})
            => LET next  == ChoiceAt(t, B, i).next_scene
                   story == get_story(B.runs[t.run_id].story_id)
               IN  /\ next \in EndingIds(story)
                        => /\ task'[p].result.kind = "ending"
                           /\ task'[p].result.id = next
                           /\ runs'[t.run_id].current_scene = next
                           /\ runs'[t.run_id].is_finished
                   /\ next \in SceneIds(story)
                        => /\ runs'[t.run_id].current_scene = next
                           /\ ~runs'[t.run_id].is_finished
    ]_vars

\* ------------------------------------------------------------------- C5
(* C5: reaching an ending sets is_finished and finished_at exactly once: a *)
(* continue_story on a run that is already finished renders the same       *)
(* ending again and leaves is_finished and finished_at as the first finish *)
(* wrote them.                                                             *)
C5_FinishWrittenOnce ==
    [][\A p \in Procs :
        LET t == task[p]
            B == Before(p)
        IN  (/\ ReturnsNow(p)
             /\ t.op = "continue_story"
             /\ t.run_id \in DOMAIN B.runs
             /\ B.runs[t.run_id].is_finished)
            => /\ task'[p].result.kind = "ending"
               /\ task'[p].result.id = B.runs[t.run_id].current_scene
               /\ runs'[t.run_id].is_finished
               /\ runs'[t.run_id].finished_at = B.runs[t.run_id].finished_at
    ]_vars

\* ------------------------------------------------------------------- C6
(* C6: reset_run(user, story) followed by start_story(user, story), as the *)
(* restart handlers call them, yields a run whose id differs from the id   *)
(* of every run there was before, the deleted run's included: the deleted  *)
(* run is gone, the new run is at start_scene and has no flags.  Whenever  *)
(* start_story inserts a run, no flag row carries the new run's id.        *)
C6_ResetThenStartIsFresh ==
    [][\A p \in Procs :
        LET t == task[p]
            B == Before(p)
            D == ActiveIn(B.runs, t.user_id, t.story_id)
        IN  /\ (t.pc = "ss_create" /\ task'[p] # t)
               => \A k \in DOMAIN flags' : k[1] # task'[p].run_id
            /\ (/\ ReturnsNow(p)
                /\ t.op \in {"story_restart", "story_start"}
                /\ HasStartPosition(t.story_id)
                /\ D # {})
               => \E r \in DOMAIN runs' :
                  /\ r \notin DOMAIN B.runs
                  /\ D \cap DOMAIN runs' = {}
                  /\ \A k \in DOMAIN flags' : k[1] \notin D
                  /\ runs'[r].user_id = t.user_id
                  /\ runs'[r].story_id = t.story_id
                  /\ runs'[r].current_scene = StartSceneOf(t.story_id)
                  /\ DOMAIN FlagsOf(flags', r) = {}
                  /\ task'[p].result.run_id = r
    ]_vars

\* C6's case: a restart has deleted an unfinished run that had flags and has
\* inserted the new run.
C6_Witness ==
    \E p \in Procs :
        /\ task[p].op \in {"story_restart", "story_start"}
        /\ task[p].pc = "cs_get_run"
        /\ task[p].run_id \in DOMAIN runs
        /\ \E a \in ActiveIn(pre.runs, task[p].user_id, task[p].story_id) :
              /\ a \notin DOMAIN runs
              /\ a # task[p].run_id
              /\ DOMAIN FlagsOf(pre.flags, a) # {}

\* ------------------------------------------------------------------- C7
(* C7: once a run is marked finished, no step changes its position, its    *)
(* finished flag, its finish timestamp or its flags for as long as the run *)
(* exists (a reset may delete it).                                         *)
C7_FinishedRunIsFrozen ==
    [][\A r \in DOMAIN runs :
        (runs[r].is_finished /\ r \in DOMAIN runs')
            => /\ runs'[r] = runs[r]
               /\ FlagsOf(flags', r) = FlagsOf(flags, r)
    ]_vars

\* ------------------------------------------------------------------- C8
(* C8: for a story with allow_restart = false, no step creates a run of    *)
(* the story for a user who has a finished run of it.                      *)
C8_NoRestartAfterFinish ==
    [][\A r \in (DOMAIN runs') \ (DOMAIN runs) :
        LET story == get_story(runs'[r].story_id)
        IN  (story # NoStory /\ ~StoryFiles[story].allow_restart)
                => ~has_finished(runs'[r].user_id, runs'[r].story_id)
    ]_vars

\* ------------------------------------------------------------------- C9
(* C9: in every reachable state there is at most one unfinished run per    *)
(* (user, story) pair.                                                     *)
C9_OneActiveRunPerPair ==
    \A u \in Users, s \in StoryIdInputs : Cardinality(ActiveRuns(u, s)) <= 1

\* ------------------------------------------------------------------ C10
\* Slot p is inside process_choice, past the handler's guards.
InProcessChoice(p) ==
    /\ task[p].op = "cb_choice"
    /\ task[p].pc \in {"pc_get_run", "cc_load_flags", "ef_apply", "ef_inc_write", "pc_update"}

(* C10: nothing past the stale-choice guard looks at the run's position    *)
(* again: a choice request that has passed the guard writes its counter    *)
(* increment and its next_scene whatever the run's position has become and *)
(* whatever another request has written meanwhile, so two requests that    *)
(* both passed the guard both apply their effects and both move the run.   *)
C10_GuardIsNotRechecked ==
    [][\A p \in Procs :
        LET t == task[p]
        IN  (InProcessChoice(p) /\ task'[p] # t /\ t.run_id \in DOMAIN runs)
            => /\ t.pc = "pc_update"
                    => runs'[t.run_id].current_scene = TheChoice(t).next_scene
               /\ t.pc = "ef_inc_write"
                    => flags'[<<t.run_id, TheChoice(t).effects[t.ei].flag>>]
                          = IntStr(t.cur + 1)
    ]_vars

\* C10's case: both requests were past the guard for scene A of one run; the
\* counter that A's choice increments once stands at 2.
C10_Witness ==
    \E r \in DOMAIN runs :
        /\ runs[r].story_id = "s1"
        /\ <<r, "n">> \in DOMAIN flags
        /\ flags[<<r, "n">>] = "2"

\* ------------------------------------------------------------------ C11
(* C11: reset_run(user, story) is atomic: while its flags are deleted and  *)
(* its run is not yet, no other request takes a step on that run (none     *)
(* observes or acts on the state between the two deletions).               *)
C11_ResetIsAtomic ==
    [][\A p \in Procs : \A q \in Procs \ {p} :
        LET D == ActiveRuns(task[p].user_id, task[p].story_id)
        IN  (task[p].pc = "rr_del_runs" /\ D # {} /\ task'[q] # task[q])
                => (task[q].run_id \notin D /\ task'[q].run_id \notin D)
    ]_vars

\* ------------------------------------------------------------------ C12
(* C12: the choice handler enters process_choice only when the scene id of *)
(* the callback equals the run's stored position; on a mismatch it returns *)
(* the render of the run's position through continue_story and leaves the  *)
(* runs and flags as they were.  With one request at a time, every effect  *)
(* write and every update_scene of a choice happens while the run is at    *)
(* the scene the choice belongs to.                                        *)
C12_StaleChoiceGuard ==
    [][\A p \in Procs :
        LET t == task[p]
            B == Before(p)
        IN  /\ (task'[p].op = "cb_choice" /\ task'[p].pc = "pc_get_run" /\ task'[p] # t)
               => /\ task'[p].run_id \in DOMAIN runs
                  /\ runs[task'[p].run_id].current_scene = task'[p].scene_id
            /\ (/\ ReturnsNow(p)
                /\ t.op = "cb_choice"
                /\ t.run_id \in DOMAIN B.runs
                /\ B.runs[t.run_id].user_id = t.user_id
                /\ ~B.runs[t.run_id].is_finished
                /\ B.runs[t.run_id].current_scene # t.scene_id)
               => /\ runs' = B.runs
                  /\ flags' = B.flags
                  /\ task'[p].result.run_id = t.run_id
                  /\ B.runs[t.run_id].current_scene \in SceneIds(get_story(B.runs[t.run_id].story_id))
                        => /\ task'[p].result.kind = "scene"
                           /\ task'[p].result.id = B.runs[t.run_id].current_scene
            /\ (t.pc \in {"ef_apply", "ef_inc_write", "pc_update"} /\ task'[p] # t)
               => /\ t.run_id \in DOMAIN runs
                  /\ runs[t.run_id].current_scene = t.scene_id
    ]_vars

\* C12's case: a choice callback of a scene the run has left is being answered
\* through continue_story.
C12_Witness ==
    \E p \in Procs :
        /\ task[p].op = "cb_choice"
        /\ task[p].pc = "cs_get_run"
        /\ runs = pre.runs
        /\ task[p].run_id \in DOMAIN runs
        /\ runs[task[p].run_id].current_scene # task[p].scene_id

\* ------------------------------------------------------------------ C13
(* C13: a choice gated by has_flag(k) alone is denied (absent, nothing     *)
(* changed) whenever the run has no flag k when it is taken, and accepted  *)
(* (the run moves to its next_scene and the render is returned) whenever   *)
(* the run has flag k.  An add_flag(k) effect puts flag k on the run, and  *)
(* a flag leaves a run only by a remove_flag effect on it or by a reset.   *)
C13_HasFlagGate ==
    [][\A p \in Procs :
        LET t == task[p]
            B == Before(p)
            i == CalledChoice(t, B)
        IN  /\ (/\ ReturnsNow(p)
                /\ i # 0
                /\ Len(ChoiceAt(t, B, i).conditions) = 1
                /\ ChoiceAt(t, B, i).conditions[1].kind = "has_flag")
               => IF ChoiceAt(t, B, i).conditions[1].flag \in DOMAIN FlagsOf(B.flags, t.run_id)
                  THEN /\ task'[p].result.kind \in {"scene", "ending"}
                       /\ task'[p].result.id = ChoiceAt(t, B, i).next_scene
                       /\ runs'[t.run_id].current_scene = ChoiceAt(t, B, i).next_scene
                  ELSE /\ task'[p].result.kind = "absent"
                       /\ runs' = B.runs
                       /\ flags' = B.flags
            /\ (/\ t.pc = "ef_apply"
                /\ task'[p] # t
                /\ TheChoice(t).effects[t.ei].kind = "add_flag")
               => <<t.run_id, TheChoice(t).effects[t.ei].flag>> \in DOMAIN flags'
            /\ \A k \in (DOMAIN flags) \ (DOMAIN flags') :
                  \E q \in Procs :
                     \/ task[q].pc = "rr_del_flags"
                     \/ task'[q].pc = "rr_del_runs"
                     \/ /\ task[q].pc = "ef_apply"
                        /\ task[q].run_id = k[1]
                        /\ TheChoice(task[q]).effects[task[q].ei].kind = "remove_flag"
                        /\ TheChoice(task[q]).effects[task[q].ei].flag = k[2]
    ]_vars

\* C13's case: the gated choice, denied before, is taken with the flag that an
\* add_flag effect of another choice put on the run, and has moved the run.
C13_Witness ==
    \E p \in Procs :
        /\ task[p].op = "cb_choice"
        /\ task[p].choice_id = "door"
        /\ task[p].pc = "cs_get_run"
        /\ task[p].run_id \in DOMAIN runs
        /\ <<task[p].run_id, "k">> \in DOMAIN pre.flags
        /\ pre.runs[task[p].run_id].current_scene = "H"
        /\ runs[task[p].run_id].current_scene = "G"

\* ------------------------------------------------------------------ C14
\* The decimal strings of 1, 2, 3, ...
Decimal == << "1", "2", "3", "4", "5", "6", "7", "8", "9", "10",
              "11", "12", "13", "14", "15", "16", "17", "18", "19", "20" >>

\* The number a counter flag stands at: 0 when the run has no such flag.
CountOf(fl, run_id, name) ==
    IF <<run_id, name>> \notin DOMAIN fl \/ fl[<<run_id, name>>] = "0" THEN 0
    ELSE CHOOSE j \in 1..Len(Decimal) : Decimal[j] = fl[<<run_id, name>>]

IsCount(fl, run_id, name) ==
    \/ <<run_id, name>> \notin DOMAIN fl
    \/ fl[<<run_id, name>>] = "0"
    \/ \E j \in 1..Len(Decimal) : Decimal[j] = fl[<<run_id, name>>]

(* C14: every application of increment_counter(n) to a run whose flag n is *)
(* absent or the decimal string of j leaves flag n equal to the decimal    *)
(* string of j + 1, absent counting as 0, and changes no other flag; so k  *)
(* applications in sequence from no flag n leave the decimal string of k.  *)
C14_CounterCounts ==
    [][\A p \in Procs :
        LET t == task[p]
            B == Before(p)
            i == CalledChoice(t, B)
        IN  (/\ ReturnsNow(p)
             /\ i # 0
             /\ AllSatisfied(ChoiceAt(t, B, i).conditions, FlagsOf(B.flags, t.run_id))
             /\ Len(ChoiceAt(t, B, i).effects) = 1
             /\ ChoiceAt(t, B, i).effects[1].kind = "increment_counter"
             /\ IsCount(B.flags, t.run_id, ChoiceAt(t, B, i).effects[1].flag))
            => LET n == ChoiceAt(t, B, i).effects[1].flag
               IN  /\ <<t.run_id, n>> \in DOMAIN flags'
                   /\ flags'[<<t.run_id, n>>] = Decimal[CountOf(B.flags, t.run_id, n) + 1]
                   /\ \A k \in (DOMAIN flags' \cup DOMAIN B.flags) \ {<<t.run_id, n>>} :
                         /\ k \in DOMAIN flags' /\ k \in DOMAIN B.flags
                         /\ flags'[k] = B.flags[k]
    ]_vars

\* C14's case: the third increment_counter in a row on a run that had no flag
\* n has been written.
C14_Witness ==
    \E p \in Procs :
        /\ task[p].op = "cb_choice"
        /\ task[p].choice_id = "inc"
        /\ task[p].pc = "cs_get_run"
        /\ <<task[p].run_id, "n">> \in DOMAIN pre.flags
        /\ pre.flags[<<task[p].run_id, "n">>] = "2"
        /\ flags[<<task[p].run_id, "n">>] = "3"

\* ------------------------------------------------------------------ C15
\* A condition list as C15 words it: flag_equals(n, v) holds iff the flag
\* exists and its value is the string form of v, whatever v is.
LiterallySatisfied(conditions, fl) ==
    \A i \in 1..Len(conditions) :
        \/ conditions[i].kind = "has_flag" /\ conditions[i].flag \in DOMAIN fl
        \/ conditions[i].kind = "not_has_flag" /\ conditions[i].flag \notin DOMAIN fl
        \/ /\ conditions[i].kind = "flag_equals"
           /\ conditions[i].flag \in DOMAIN fl
           /\ fl[conditions[i].flag] = PyStr(conditions[i].value)

\* The step slot p takes is check_conditions on a list of non-empty mappings.
ChecksConditions(p) ==
    /\ task[p].pc = "cc_load_flags"
    /\ task'[p] # task[p]
    /\ \A i \in 1..Len(TheChoice(task[p]).conditions) :
          TheChoice(task[p]).conditions[i].kind # ""

\* check_conditions has returned False / True to process_choice in this step.
SaidFalse(p) == AtRest(task'[p]) /\ task'[p].result.why = "conditions"
SaidTrue(p)  == \/ task'[p].pc \in {"ef_apply", "pc_update"}
                \/ AtRest(task'[p]) /\ task'[p].result.why = "no_next_scene"

(* C15 as worded: check_conditions is true for the empty list and          *)
(* otherwise true iff every condition holds of the run's flags, with       *)
(* flag_equals(n, v) holding iff the flag exists and its value equals the  *)
(* string form of v.                                                       *)
C15_CheckConditionsLiteral ==
    [][\A p \in Procs :
        ChecksConditions(p)
            => /\ SaidTrue(p) <=> LiterallySatisfied(TheChoice(task[p]).conditions,
                                                     get_flags(task[p].run_id))
               /\ SaidFalse(p) <=> ~LiterallySatisfied(TheChoice(task[p]).conditions,
                                                       get_flags(task[p].run_id))
    ]_vars

(* C15, amended: check_conditions is true for the empty list (the choice   *)
(* goes on to its effects without a read of the flags) and otherwise true  *)
(* iff every condition holds of the flags read: has_flag(n) iff n is a     *)
(* flag of the run, not_has_flag(n) iff it is not, flag_equals(n, v) iff v *)
(* is given and not null, n is not empty, and the flag exists with the     *)
(* string form of v as its value.                                          *)
C15_CheckConditions ==
    [][\A p \in Procs :
        /\ ChecksConditions(p)
            => /\ SaidTrue(p) <=> AllSatisfied(TheChoice(task[p]).conditions,
                                               get_flags(task[p].run_id))
               /\ SaidFalse(p) <=> ~AllSatisfied(TheChoice(task[p]).conditions,
                                                 get_flags(task[p].run_id))
        /\ (/\ task'[p].op = "cb_choice"
            /\ task[p].pc \in {"done", "pc_get_run"}
            /\ task'[p] # task[p]
            /\ task'[p].story # NoStory
            /\ Len(TheChoice(task'[p]).conditions) = 0)
            => task'[p].pc \in {"ef_apply", "pc_update"}
    ]_vars

\* C15's case: a list of two conditions, a flag_equals and a not_has_flag,
\* has been found true of the run's flags.
C15_Witness ==
    \E p \in Procs :
        /\ task[p].op = "cb_choice"
        /\ task[p].choice_id = "eq"
        /\ task[p].pc = "ef_apply"
        /\ get_flags(task[p].run_id) = [n \in {"v"} |-> "x"]

\* ------------------------------------------------------------------ C16
ConditionKinds == {"has_flag", "not_has_flag", "flag_equals"}

(* C16: a choice that carries a condition of an unrecognized kind is never *)
(* accepted by process_choice, whatever the run's flags: the call returns  *)
(* no render of a new position, and the runs and flags stay as they were.  *)
C16_UnknownConditionDenies ==
    [][\A p \in Procs :
        LET t == task[p]
            B == Before(p)
            i == CalledChoice(t, B)
        IN  (/\ ReturnsNow(p)
             /\ i # 0
             /\ \E j \in 1..Len(ChoiceAt(t, B, i).conditions) :
                   ChoiceAt(t, B, i).conditions[j].kind \notin ConditionKinds \cup {""})
            => /\ task'[p].result.kind \notin {"scene", "ending", "ending_error"}
               /\ runs' = B.runs
               /\ flags' = B.flags
    ]_vars

\* C16's case: the choice of scene G whose one condition is of an unknown kind
\* has been turned down for a run that has the flag the condition names.
C16_Witness ==
    \E p \in Procs, r \in DOMAIN runs :
        /\ task[p].result.op = "cb_choice"
        /\ task[p].result.why = "conditions"
        /\ runs[r].story_id = "s3"
        /\ runs[r].current_scene = "G"
        /\ DOMAIN runs = {r}
        /\ <<r, "n">> \in DOMAIN flags

\* ------------------------------------------------------------------ C17
EffectKinds == {"add_flag", "remove_flag", "set_flag", "increment_counter"}

\* A run's flags, as a name -> value function, with one flag written / removed.
WithFlag(d, name, value) ==
    [m \in (DOMAIN d) \cup {name} |-> IF m = name THEN value ELSE d[m]]
WithoutFlag(d, name) == [m \in (DOMAIN d) \ {name} |-> d[m]]

\* What one effect makes of a run's flags.
EffectOn(d, e) ==
    CASE e.kind = "add_flag"    -> WithFlag(d, e.flag, "1")
      [] e.kind = "remove_flag" -> WithoutFlag(d, e.flag)
      [] e.kind = "set_flag"    ->
            IF e.flag = "" THEN d
            ELSE WithFlag(d, e.flag,
                    CASE e.value.t = "missing" -> "1"
                      [] e.value.t = "int"     ->
                            IF e.value.i = 0 THEN "0" ELSE Decimal[e.value.i]
                      [] e.value.t = "str"     -> e.value.s
                      [] OTHER                 -> "None")
      [] e.kind = "increment_counter" ->
            IF e.flag \notin DOMAIN d \/ d[e.flag] = "0"
            THEN WithFlag(d, e.flag, "1")
            ELSE IF \E j \in 1..(Len(Decimal) - 1) : Decimal[j] = d[e.flag]
                 THEN WithFlag(d, e.flag,
                         Decimal[(CHOOSE j \in 1..(Len(Decimal) - 1) : Decimal[j] = d[e.flag]) + 1])
                 ELSE d      \* not a number: nothing to count on
      [] OTHER -> d

\* The left-to-right fold of an effect list over a run's flags.
RECURSIVE FoldEffects(_, _)
FoldEffects(effects, d) ==
    IF Len(effects) = 0 THEN d
    ELSE FoldEffects(Tail(effects), EffectOn(d, Head(effects)))

\* The effects of a list that are of a recognized kind, in their order.
RECURSIVE KnownEffects(_)
KnownEffects(effects) ==
    IF Len(effects) = 0 THEN << >>
    ELSE IF Head(effects).kind \in EffectKinds
         THEN <<Head(effects)>> \o KnownEffects(Tail(effects))
         ELSE KnownEffects(Tail(effects))

(* C17: an effect of an unrecognized kind changes no flag and does not     *)
(* abort the choice: the step that meets it writes nothing and goes on,    *)
(* and a choice whose other effects are add_flag, remove_flag and set_flag *)
(* returns the render of its next_scene with the run there and the run's   *)
(* flags those the other effects make, in their order.                     *)
C17_UnknownEffectIsNoOp ==
    [][\A p \in Procs :
        LET t == task[p]
            B == Before(p)
            i == CalledChoice(t, B)
        IN  /\ (/\ t.pc = "ef_apply"
                /\ task'[p] # t
                /\ TheChoice(t).effects[t.ei].kind \notin EffectKinds \cup {""})
               => /\ flags' = flags
                  /\ runs' = runs
                  /\ task'[p].result.kind \notin {"raised", "error_reported"}
                  /\ task'[p].pc \in {"ef_apply", "pc_update"}
            /\ (/\ ReturnsNow(p)
                /\ i # 0
                /\ AllSatisfied(ChoiceAt(t, B, i).conditions, FlagsOf(B.flags, t.run_id))
                /\ ChoiceAt(t, B, i).next_scene # NoScene
                /\ \E j \in 1..Len(ChoiceAt(t, B, i).effects) :
                      ChoiceAt(t, B, i).effects[j].kind \notin EffectKinds \cup {""}
                /\ \A j \in 1..Len(ChoiceAt(t, B, i).effects) :
                      ChoiceAt(t, B, i).effects[j].kind \notin {"increment_counter", ""})
               => /\ task'[p].result.kind \in {"scene", "ending", "ending_error"}
                  /\ runs'[t.run_id].current_scene = ChoiceAt(t, B, i).next_scene
                  /\ FlagsOf(flags', t.run_id)
                        = FoldEffects(KnownEffects(ChoiceAt(t, B, i).effects),
                                      FlagsOf(B.flags, t.run_id))
    ]_vars

\* C17's case: the choice with an unknown effect between its set_flag effects
\* has written the effects after the unknown one and moved the run.
C17_Witness ==
    \E p \in Procs :
        /\ task[p].op = "cb_choice"
        /\ task[p].choice_id = "mix"
        /\ task[p].pc = "cs_get_run"
        /\ DOMAIN FlagsOf(pre.flags, task[p].run_id) = {}
        /\ FlagsOf(flags, task[p].run_id) = [n \in {"k", "v"} |-> IF n = "k" THEN "1" ELSE "x"]
        /\ runs[task[p].run_id].current_scene = "G"

\* ------------------------------------------------------------------ C18
(* C18: apply_effects applies the effects in list order: when an accepted  *)
(* choice returns without an exception, the run's flags are the            *)
(* left-to-right fold of its effects over the flags before the call (a     *)
(* later effect on a flag overrides an earlier one), the other runs' flags *)
(* are untouched, and when update_scene is about to advance the position   *)
(* the flags are already written and the position is still the old one.    *)
C18_EffectsInOrder ==
    [][\A p \in Procs :
        LET t == task[p]
            B == Before(p)
            i == CalledChoice(t, B)
        IN  /\ (/\ ReturnsNow(p)
                /\ i # 0
                /\ AllSatisfied(ChoiceAt(t, B, i).conditions, FlagsOf(B.flags, t.run_id))
                /\ task'[p].result.kind \notin {"raised", "error_reported"})
               => /\ FlagsOf(flags', t.run_id)
                        = FoldEffects(ChoiceAt(t, B, i).effects, FlagsOf(B.flags, t.run_id))
                  /\ \A r \in RunIds \ {t.run_id} : FlagsOf(flags', r) = FlagsOf(B.flags, r)
            /\ (t.op = "cb_choice" /\ t.pc = "pc_update" /\ task'[p] # t /\ i # 0)
               => /\ FlagsOf(flags, t.run_id)
                        = FoldEffects(ChoiceAt(t, B, i).effects, FlagsOf(B.flags, t.run_id))
                  /\ runs = B.runs
                  /\ flags' = flags
    ]_vars

\* C18's case: the choice that sets flag v twice has written all its effects,
\* the later value standing, and update_scene has not yet moved the run.
C18_Witness ==
    \E p \in Procs :
        /\ task[p].op = "cb_choice"
        /\ task[p].choice_id = "mix"
        /\ task[p].pc = "pc_update"
        /\ <<task[p].run_id, "v">> \notin DOMAIN pre.flags
        /\ flags[<<task[p].run_id, "v">>] = "x"
        /\ runs[task[p].run_id].current_scene = "H"

\* ------------------------------------------------------------------ C19
(* C19: if one effect of an accepted choice's list fails, the failure is   *)
(* contained and every later effect is still attempted: the call returns   *)
(* without an exception and the run's flags are the fold of the list over  *)
(* the flags before, the failed effect alone leaving them as they were.    *)
C19_FailedEffectContained ==
    [][\A p \in Procs :
        LET t == task[p]
            B == Before(p)
            i == CalledChoice(t, B)
        IN  (/\ ReturnsNow(p)
             /\ i # 0
             /\ AllSatisfied(ChoiceAt(t, B, i).conditions, FlagsOf(B.flags, t.run_id)))
            => /\ task'[p].result.kind \notin {"raised", "error_reported"}
               /\ FlagsOf(flags', t.run_id)
                     = FoldEffects(ChoiceAt(t, B, i).effects, FlagsOf(B.flags, t.run_id))
    ]_vars

\* ------------------------------------------------------------------ C20
(* C20: no story content makes an engine operation raise: no request ends  *)
(* with an exception that left start_story, continue_story or              *)
(* process_choice.                                                         *)
C20_EngineNeverRaises ==
    \A p \in Procs : task[p].result.kind \notin {"raised", "error_reported"}

\* ------------------------------------------------------------------ C23
(* C23: ending resolution is the only transition that sets finished: a     *)
(* run's is_finished goes from false to true only in the finish_run of     *)
(* _render_ending, inside continue_story (called directly, by start_story  *)
(* or by process_choice), and at that moment the run's current position is *)
(* an ending id of its story.                                              *)
C23_OnlyEndingFinishes ==
    [][\A r \in (DOMAIN runs) \cap (DOMAIN runs') :
        (~runs[r].is_finished /\ runs'[r].is_finished)
            => /\ \E p \in Procs : /\ task[p].pc = "re_finish"
                                   /\ task[p].run_id = r
                                   /\ task'[p] # task[p]
               /\ get_story(runs[r].story_id) # NoStory
               /\ runs[r].current_scene \in EndingIds(get_story(runs[r].story_id))
    ]_vars

\* ------------------------------------------------------------------ C24
(* C24: in every reachable state, a run that is marked finished has a      *)
(* current position that is an ending id of its story, and a run that is   *)
(* not finished has a null finish timestamp.                               *)
C24_FinishedAtEnding ==
    \A r \in DOMAIN runs :
        /\ runs[r].is_finished
              => /\ get_story(runs[r].story_id) # NoStory
                 /\ runs[r].current_scene \in EndingIds(get_story(runs[r].story_id))
        /\ ~runs[r].is_finished => runs[r].finished_at = Null


\* ------------------------------------------------------------------ C25
\* Slot p's start_story runs its get_active_run in this step (the story is
\* loaded); the call returned a run when start_story goes on to render it and
\* absent when start_story goes on to create one.
GetsActiveRun(p) ==
    /\ task[p].pc \in {"done", "ss_get_active"}
    /\ task'[p].op \in StartOps
    /\ task'[p].pc \in {"cs_get_run", "ss_create"}

(* C25: get_active_run(user, story) returns absent iff the pair has no     *)
(* unfinished run, and otherwise returns an unfinished run of that user    *)
(* and story than which no unfinished run of the pair was started later;   *)
(* it never returns a finished run or a run of another user or story.      *)
C25_GetActiveRun ==
    [][\A p \in Procs :
        GetsActiveRun(p)
            => LET u == task'[p].user_id
                   s == task'[p].story_id
                   r == task'[p].run_id
               IN  /\ task'[p].pc = "ss_create" <=> ActiveRuns(u, s) = {}
                   /\ task'[p].pc = "cs_get_run"
                        => /\ r \in DOMAIN runs
                           /\ runs[r].user_id = u
                           /\ runs[r].story_id = s
                           /\ ~runs[r].is_finished
                           /\ \A q \in DOMAIN runs :
                                 (/\ runs[q].user_id = u
                                  /\ runs[q].story_id = s
                                  /\ ~runs[q].is_finished)
                                 => runs[q].started_at <= runs[r].started_at
    ]_vars

\* C25's case: get_active_run has returned the later started of a pair's two
\* unfinished runs, while the table also holds a finished run.
C25_Witness ==
    \E p \in Procs, q \in DOMAIN runs, f \in DOMAIN runs :
        /\ task[p].op = "start_story"
        /\ task[p].pc = "cs_get_run"
        /\ task[p].run_id \in DOMAIN runs
        /\ q # task[p].run_id
        /\ runs[q].user_id = task[p].user_id
        /\ runs[q].story_id = task[p].story_id
        /\ ~runs[q].is_finished
        /\ runs[q].started_at < runs[task[p].run_id].started_at
        /\ runs[f].is_finished


\* ------------------------------------------------------------------ C21
\* What the engine logs when it cannot resolve a story, run, scene or choice.
NotFound ==
    {"story_not_found", "no_start_scene", "run_not_found", "scene_not_found",
     "choice_not_found"}

\* Slot p's request hands its result to the handler in this step.
Ends(p) == task[p].pc # "ret" /\ task'[p].pc = "ret"

(* C21: when the story, run, scene or choice cannot be resolved,           *)
(* start_story, continue_story and process_choice return absent and change *)
(* no run and no flag: the tables are as they were when the request came.  *)
C21_NotFoundChangesNothing ==
    [][\A p \in Procs :
        (/\ Ends(p)
         /\ task'[p].result.op \in {"start_story", "continue_story", "cb_choice"}
         /\ task'[p].result.kind = "absent"
         /\ task'[p].result.why \in NotFound)
            => /\ runs' = Before(p).runs
               /\ flags' = Before(p).flags
    ]_vars


\* ------------------------------------------------------------------ C22
\* Slot p is inside process_choice, past its lookups, on a choice that
\* declares no next_scene.
OnChoiceWithoutNext(p) ==
    /\ task[p].op = "cb_choice"
    /\ task[p].pc \in {"cc_load_flags", "ef_apply", "ef_inc_write"}
    /\ task[p].story # NoStory
    /\ TheChoice(task[p]).next_scene = NoScene

(* C22: process_choice on a choice that declares no next_scene fails: no   *)
(* step of it writes the runs table or reaches update_scene or the render  *)
(* of a position, and it returns absent with the runs as they were when    *)
(* the request came (the run's position unchanged).                        *)
C22_NoNextSceneFails ==
    [][\A p \in Procs :
        (OnChoiceWithoutNext(p) /\ task'[p] # task[p])
            => /\ runs' = runs
               /\ task'[p].pc \notin {"pc_update", "cs_get_run", "re_finish"}
               /\ AtRest(task'[p])
                     => /\ task'[p].result.kind = "absent"
                        /\ runs' = pre.runs
                        /\ runs'[task[p].run_id].current_scene = task[p].scene_id
    ]_vars

\* C22's case: a choice without next_scene has been taken: its effect is
\* written, the call has returned absent and the run is where it was.
C22_Witness ==
    \E p \in Procs, r \in DOMAIN runs :
        /\ task[p].pc = "ret"
        /\ task[p].result.op = "cb_choice"
        /\ task[p].result.kind = "absent"
        /\ task[p].result.why = "no_next_scene"
        /\ runs[r].current_scene = "P"
        /\ <<r, "k">> \in DOMAIN flags


\* ------------------------------------------------------------------ C26
\* Slot p's process_choice has moved the run and its continue_story is about
\* to resolve the new position.
ResolvesNewPosition(p) ==
    /\ task[p].op = "cb_choice"
    /\ task[p].pc = "cs_get_run"
    /\ pre.story # NoStory
    /\ task'[p] # task[p]
    /\ task[p].run_id \in DOMAIN runs

(* C26: an operation in flight when reload runs is unaffected by it: a     *)
(* process_choice that resolved its story before the reload resolves the   *)
(* run's new position in that same story definition.                       *)
C26_InFlightKeepsStory ==
    [][\A p \in Procs :
        ResolvesNewPosition(p)
            => get_story(runs[task[p].run_id].story_id) = pre.story
    ]_vars


\* ------------------------------------------------------------------ C27
\* The files of a directory that hold a story mapping with an id.
Loadable(dir) == {f \in FileNames : IsMapping(dir[f]) /\ StoryFiles[dir[f]].id # ""}

\* The complete index of a directory: every loadable file under its id.
IndexOf(dir) ==
    [id \in {StoryFiles[dir[f]].id : f \in Loadable(dir)} |->
        dir[CHOOSE f \in Loadable(dir) : StoryFiles[dir[f]].id = id]]

(* C27: reload replaces the story index atomically: the index goes from    *)
(* the complete old one to the complete index of the directory in one step *)
(* of the reloading handler, in which no request takes a step; no state    *)
(* in between, with the index empty or partly loaded, is there for a       *)
(* get_story, list_stories or engine operation to read.                    *)
C27_ReloadIsAtomic ==
    [][stories' # stories
          => /\ stories' = IndexOf(disk)
             /\ admin = "reload"
             /\ task' = task
             /\ listing' = listing
    ]_vars

\* C27's case: a reload has replaced story s4 in the index while a request was
\* in flight, which reads the new index complete.
C27_Witness ==
    /\ ~AtRest(task["p1"])
    /\ pre.story = "s4"
    /\ admin = "idle"
    /\ stories = IndexOf(disk)
    /\ get_story("s4") = "s4b"

\* ------------------------------------------------------------------ C28
(* C28: the mapping list_stories returned is a snapshot: for as long as    *)
(* the caller holds it, no step, a reload that adds, removes or replaces   *)
(* stories included, changes its ids or the story objects under them.      *)
C28_ListIsSnapshot ==
    [][(listing # NoListing /\ listing' # NoListing) => Listed' = Listed]_vars

\* C28's case: a list_stories result taken when s4 was the hand-written story
\* is held while the index has s4 replaced or removed by a reload.
C28_Witness ==
    /\ listing # NoListing
    /\ "s4" \in DOMAIN Listed
    /\ Listed["s4"] = "s4"
    /\ get_story("s4") # "s4"

\* ------------------------------------------------------------------ C29
(* C29: loading indexes exactly the definitions that parse, are not empty  *)
(* and declare an id, each under its declared id: once the engine is       *)
(* constructed or a reload has run, every such file of the directory is in *)
(* the index under its id, whatever other files are empty, unparsable or   *)
(* without id and wherever they come in the order, and the index holds     *)
(* nothing else.                                                           *)
C29_LoadIndexesGoodFiles ==
    admin # "reload"
        => /\ \A f \in FileNames :
                 (IsMapping(disk[f]) /\ StoryFiles[disk[f]].id # "")
                    => /\ StoryFiles[disk[f]].id \in DOMAIN stories
                       /\ stories[StoryFiles[disk[f]].id] = disk[f]
           /\ \A id \in DOMAIN stories :
                 \E f \in FileNames : /\ disk[f] = stories[id]
                                      /\ IsMapping(disk[f])
                                      /\ StoryFiles[disk[f]].id = id
           /\ \A f \in FileNames, id \in DOMAIN stories :
                 disk[f] \in {"absent", "empty", "garbage", "anon"} => stories[id] # disk[f]

\* C29's case: a reload has indexed the uploaded s4 although the file listed
\* before it does not parse, is empty or declares no id.
C29_Witness ==
    /\ admin = "idle"
    /\ disk["s5.yaml"] \in {"empty", "garbage", "anon"}
    /\ disk["s4.yaml"] = "s4b"
    /\ DOMAIN stories = {"s4"}
    /\ stories["s4"] = "s4b"

\* ------------------------------------------------------------------ C30
(* C30: for every story the engine serves, start_scene resolves to a       *)
(* defined scene or ending of the story.                                   *)
C30_StartSceneResolves ==
    \A id \in DOMAIN stories :
        StoryFiles[stories[id]].start_scene
            \in SceneIds(stories[id]) \cup EndingIds(stories[id])


\* ------------------------------------------------------------------ C31
\* The request slot p works on in this step: the one that arrives in it, or
\* the one in flight.
Acting(p) == IF task[p].pc = "done" THEN task'[p] ELSE task[p]

\* The runs whose flags a request may write: the run an engine operation was
\* called on, or, for a reset that has no run id, the pair's unfinished runs.
OwnRuns(t) ==
    IF t.run_id = NoRun THEN ActiveRuns(t.user_id, t.story_id) ELSE {t.run_id}

(* C31: flags never leak across runs.  Every step a request takes leaves   *)
(* the flags of every run other than its own (for a reset: other than the  *)
(* pair's unfinished runs) as they were, and a step of no request changes  *)
(* no flag.  The outcome of check_conditions on run r is decided by r's    *)
(* own flags, whatever flags the other runs have, and increment_counter    *)
(* counts on from r's own counter.                                         *)
C31_FlagsDoNotLeak ==
    [][/\ (\A p \in Procs : task'[p] = task[p]) => flags' = flags
       /\ \A p \in Procs :
            task'[p] # task[p]
               => LET t == task[p]
                  IN  /\ \A q \in RunIds \ OwnRuns(Acting(p)) :
                            FlagsOf(flags', q) = FlagsOf(flags, q)
                      /\ t.pc = "cc_load_flags"
                            => (task'[p].pc \in {"ef_apply", "pc_update"}
                                  <=> AllSatisfied(TheChoice(t).conditions,
                                                   FlagsOf(flags, t.run_id)))
                      /\ (t.pc = "ef_apply" /\ task'[p].pc = "ef_inc_write")
                            => task'[p].cur
                                  = CountOf(flags, t.run_id, TheChoice(t).effects[t.ei].flag)
    ]_vars

\* C31's case: a choice has written flag k of its run while another run of
\* the same story stands at the same scene with flags of its own and no k.
C31_Witness ==
    \E p \in Procs, q \in DOMAIN runs :
        /\ task[p].op = "cb_choice"
        /\ task[p].pc = "pc_update"
        /\ task[p].choice_id = "key"
        /\ task[p].run_id \in DOMAIN runs
        /\ q # task[p].run_id
        /\ runs[q].story_id = runs[task[p].run_id].story_id
        /\ runs[q].current_scene = "B"
        /\ "k" \in DOMAIN FlagsOf(flags, task[p].run_id)
        /\ DOMAIN FlagsOf(flags, q) = {"n"}


\* ------------------------------------------------------------------ C32
(* C32: a scene render lists the scene's choices in exactly the order of   *)
(* the scene's choice list, one row of one button per choice, whether or   *)
(* not the choice's conditions hold, and the callback data of button i     *)
(* carries the id of the rendered run, the id of the scene, which is the   *)
(* run's position, and the id of choice i.                                 *)
C32_RenderListsChoicesInOrder ==
    \A p \in Procs :
        (task[p].pc = "ret" /\ task[p].result.kind = "scene")
            => LET res     == task[p].result
                   r       == res.run_id
                   choices == StoryFiles[get_story(runs[r].story_id)].scenes[res.id]
               IN  /\ r \in DOMAIN runs
                   /\ res.id = runs[r].current_scene
                   /\ Len(res.keyboard) = Len(choices)
                   /\ \A i \in 1..Len(choices) :
                         /\ Len(res.keyboard[i]) = 1
                         /\ res.keyboard[i][1]
                               = "choice:" \o IntStr(r) \o ":" \o res.id
                                           \o ":" \o choices[i].id

\* C32's case: scene B has been rendered for the second run, which has not
\* the flag its first choice asks for: the render lists both choices.
C32_Witness ==
    \E p \in Procs :
        /\ task[p].pc = "ret"
        /\ task[p].result.kind = "scene"
        /\ task[p].result.id = "B"
        /\ task[p].result.run_id = 2
        /\ "k" \notin DOMAIN FlagsOf(flags, 2)
        /\ task[p].result.keyboard = << << "choice:2:B:open" >>, << "choice:2:B:key" >> >>


\* ------------------------------------------------------------------ C33
(* C33: the "Continue" menu handler resumes the user's most recently       *)
(* started unfinished run: the run it hands to continue_story is an        *)
(* unfinished run of the user, and no unfinished run of the user was       *)
(* started later.                                                          *)
C33_ContinueResumesLatest ==
    [][\A p \in Procs :
        (/\ task[p].pc = "done"
         /\ task'[p].op = "menu_continue"
         /\ task'[p].pc = "cs_get_run")
            => LET r == task'[p].run_id
               IN  /\ r \in DOMAIN runs
                   /\ runs[r].user_id = task'[p].user_id
                   /\ ~runs[r].is_finished
                   /\ \A q \in DOMAIN runs :
                         (runs[q].user_id = task'[p].user_id /\ ~runs[q].is_finished)
                            => runs[q].started_at <= runs[r].started_at
    ]_vars


\* ------------------------------------------------------------------ C34
(* C34: whenever process_choice returns absent, for whatever reason, the   *)
(* run's position and the run's flags are exactly what they were before    *)
(* the call.                                                               *)
C34_AbsentChangesNothing ==
    [][\A p \in Procs :
        (/\ Ends(p)
         /\ task'[p].result.op = "cb_choice"
         /\ task'[p].result.kind = "absent"
         /\ task[p].run_id \in DOMAIN pre.runs
         /\ pre.runs[task[p].run_id].current_scene = task[p].scene_id)
            => LET r == task[p].run_id
               IN  /\ r \in DOMAIN runs'
                   /\ runs'[r].current_scene = pre.runs[r].current_scene
                   /\ FlagsOf(flags', r) = FlagsOf(pre.flags, r)
    ]_vars


\* ------------------------------------------------------------------ C35
\* start_scene and every choice's next_scene of the story name a scene or an
\* ending of it.
WellFormed(story) ==
    ValidationErrors(story)
        \cap {"no_start_scene", "start_not_found", "no_next_scene", "next_not_found"} = {}

(* C35: with every loaded story well formed and no reload, after every     *)
(* step the position of every run names a scene or an ending of the run's  *)
(* story, and a continue_story that finds its run (called by a handler, by *)
(* start_story or by process_choice) does not return absent.               *)
C35_PositionsResolve ==
    [][/\ \A r \in DOMAIN runs' :
            LET story == get_story(runs'[r].story_id)
            IN  /\ story # NoStory
                /\ WellFormed(story)
                      => runs'[r].current_scene \in SceneIds(story) \cup EndingIds(story)
       /\ \A p \in Procs :
            (/\ task[p].pc \in {"done", "cs_get_run"}
             /\ AtRest(task'[p])
             /\ task'[p].result.op \in {"continue_story", "start_story", "cb_choice",
                                        "story_start", "story_restart"}
             /\ task'[p].result.kind = "absent")
                => /\ task'[p].result.why \in {"run_not_found", "story_not_found",
                                               "no_start_scene"}
                   /\ task'[p].result.why = "run_not_found"
                         => (task[p].pc = "done" \/ task[p].run_id \notin DOMAIN runs)
                   /\ task'[p].result.why \in {"story_not_found", "no_start_scene"}
                         => task[p].pc = "done"
    ]_vars

\* C35's case: a run has been moved by a choice and continue_story has
\* rendered the scene it stands at.
C35_Witness ==
    \E p \in Procs :
        /\ task[p].pc = "ret"
        /\ task[p].result.op = "continue_story"
        /\ task[p].result.kind = "scene"
        /\ task[p].result.id = "B"
        /\ runs[task[p].result.run_id].current_scene = "B"


\* ------------------------------------------------------------------ C36
\* The results that are a presentation: the engine returned a text, a
\* keyboard (or none) and the run id.
Presentations == {"scene", "ending", "ending_error"}

(* C36: when a start_story, continue_story or process_choice call, made    *)
(* with no other request in flight and no reload, has returned a           *)
(* presentation for a run, the run is marked finished if and only if its   *)
(* position is an ending id of its story, and the presentation has no      *)
(* choices exactly in that case.                                           *)
C36_FinishedIffAtEnding ==
    \A p \in Procs :
        (task[p].pc = "ret" /\ task[p].result.kind \in Presentations)
            => LET r == task[p].result.run_id
               IN  /\ r \in DOMAIN runs
                   /\ runs[r].is_finished
                         <=> runs[r].current_scene \in EndingIds(get_story(runs[r].story_id))
                   /\ Len(task[p].result.keyboard) = 0
                         <=> runs[r].current_scene \in EndingIds(get_story(runs[r].story_id))


\* ------------------------------------------------------------------ C39
(* C39: save_story never writes a definition that validate_story reports   *)
(* as invalid: every story definition a step writes to the directory is    *)
(* valid.                                                                  *)
C39_SaveWritesOnlyValid ==
    [][\A f \in FileNames :
        (disk'[f] # disk[f] /\ IsMapping(disk'[f])) => validate_story(disk'[f])
    ]_vars


\* ------------------------------------------------------------------ C37
(* C37: every flag record belongs to a run that exists: in every reachable *)
(* state, the interleavings of reset_run with a process_choice on the same *)
(* run included, every flag row carries the id of a row of runs.           *)
C37_NoOrphanFlags ==
    \A k \in DOMAIN flags : k[1] \in DOMAIN runs


\* ------------------------------------------------------------------ C38
(* C38: the choice callback handler lets a callback through to the engine  *)
(* only when its run exists, is owned by the requesting user and is        *)
(* unfinished; a callback let through changes that run and its flags only; *)
(* a callback from another user, or on a finished or unknown run, is       *)
(* answered with every run and every flag as they were.                    *)
C38_ChoiceGuards ==
    [][\A p \in Procs :
        /\ (task[p].pc = "done" /\ task'[p].op = "cb_choice" /\ ~AtRest(task'[p]))
               => /\ task'[p].run_id \in DOMAIN runs
                  /\ runs[task'[p].run_id].user_id = task'[p].user_id
                  /\ ~runs[task'[p].run_id].is_finished
        /\ (task[p].pc = "done" /\ task'[p].result.op = "cb_choice")
               => (runs' = runs /\ flags' = flags)
        /\ (task[p].op = "cb_choice" /\ ~AtRest(task[p]) /\ task'[p] # task[p])
               => /\ DOMAIN runs' = DOMAIN runs
                  /\ \A r \in DOMAIN runs \ {task[p].run_id} :
                        runs'[r] = runs[r] /\ FlagsOf(flags', r) = FlagsOf(flags, r)
                  /\ (runs' # runs \/ flags' # flags)
                        => /\ pre.runs[task[p].run_id].user_id = task[p].user_id
                           /\ ~pre.runs[task[p].run_id].is_finished
        /\ (Ends(p) /\ task'[p].result.op = "cb_choice"
                    /\ task'[p].result.kind \in {"ignored", "run_not_found"})
               => (runs' = Before(p).runs /\ flags' = Before(p).flags)
    ]_vars

\* C38's case: a callback on a run of another user has been ignored (no run
\* is finished, so that is why), and the other user's run and flag stand.
C38_Witness ==
    \E p \in Procs :
        /\ task[p].pc = "ret"
        /\ task[p].result.op = "cb_choice"
        /\ task[p].result.kind = "ignored"
        /\ DOMAIN runs = {1}
        /\ ~runs[1].is_finished
        /\ runs[1].current_scene = "B"
        /\ DOMAIN FlagsOf(flags, 1) = {"n"}


\* ------------------------------------------------------------------ C40
(* C40: reset_run(user, story) deletes every unfinished run of the pair    *)
(* and nothing else: when it returns, the runs are those of before the     *)
(* call without the pair's unfinished runs, each as it was, the flags of   *)
(* the runs that remain are as they were, and the pair has no unfinished   *)
(* run, so that get_active_run(user, story) returns absent.                *)
C40_ResetDeletesActiveOnly ==
    [][\A p \in Procs :
        LET t == task[p]
            B == Before(p)
            D == ActiveIn(B.runs, t.user_id, t.story_id)
        IN  (ReturnsNow(p) /\ t.op = "reset_run")
            => /\ DOMAIN runs' = (DOMAIN B.runs) \ D
               /\ \A r \in DOMAIN runs' :
                     /\ runs'[r] = B.runs[r]
                     /\ FlagsOf(flags', r) = FlagsOf(B.flags, r)
               /\ ActiveIn(runs', t.user_id, t.story_id) = {}
               /\ task'[p].result.kind = "reset"
    ]_vars

\* C40's case: a reset has deleted the flags of the pair's unfinished run and
\* is about to delete the run, while the table holds a finished run of the
\* same pair with its flags.
C40_Witness ==
    \E p \in Procs, r \in DOMAIN runs, f \in DOMAIN runs :
        /\ task[p].op = "reset_run"
        /\ task[p].pc = "rr_del_runs"
        /\ r \in ActiveIn(pre.runs, task[p].user_id, task[p].story_id)
        /\ DOMAIN FlagsOf(pre.flags, r) # {}
        /\ DOMAIN FlagsOf(flags, r) = {}
        /\ runs[f].is_finished
        /\ runs[f].user_id = task[p].user_id
        /\ runs[f].story_id = task[p].story_id
        /\ DOMAIN FlagsOf(flags, f) # {}


====
